---- MODULE Spec2Model ----
(***************************************************************************)
(* Model of the audio-analysis pipeline of SpeakifyTech/site:              *)
(*   - GET /api/analyze/[project]/[id]  (cache check, oracle call, schema  *)
(*     validation, word/wpm normalisation, scoring, persistence)           *)
(*   - the server-side scoring functions and their client-side mirror      *)
(*   - DELETE /api/uploads/[project]/[id] and PATCH /api/projects/[id],    *)
(*     served next to analysis requests (SpecDelete, SpecPatch)            *)
(* Numbers are modelled as integers and fractions are kept exact           *)
(* (numerator/denominator); Math.round(p/q) is floor(p/q + 1/2).           *)
(* A text is a sequence of one-character strings.                          *)
(***************************************************************************)
EXTENDS Integers, Sequences, FiniteSets, TLC

VARIABLES
    audioAnalysis,  \* rows of the audioAnalysis collection
    pc,             \* per request: position in GET
    isRetry,        \* per request: searchParams.get('retry') === 'true'
    sessionUser,    \* per request: session?.user?.id ("" when there is none)
    projectId,      \* per request: params.project
    id,             \* per request: params.id
    project,        \* per request: result of prisma.project.findFirst (0 or 1 row)
    upload,         \* per request: upload.analysis read by findFirst (0 or 1 row)
    rawOutput,      \* per request: what the oracle answered (0 or 1 outcome)
    analysisData,   \* per request: validated and normalised analysis (0 or 1)
    response,       \* per request: the response sent (0 or 1)
    calls,          \* per request: number of generateContent calls made
    wrote,          \* per request: "no", "ok" (a write landed) or "failed" (a write threw)
    kind,           \* per request: exit taken, in the words of the error taxonomy
    path,           \* per request: "", "hit", "backfill", "retry", "create" or "update"
    raced,          \* per request: a request for the same upload persisted after this one's cache check
    projectsCollection, \* rows of the project collection
    uploadsCollection,  \* rows of the audioUpload collection
    deleteReq,      \* the DELETE /api/uploads/[project]/[id] request being served
    patchResponse,  \* the last response of PATCH /api/projects/[id] (0 or 1)
    postResponse,   \* the last response of POST /api/projects (0 or 1)
    uploadPost,     \* per slot: the POST /api/uploads/[project] request being served
    page,           \* the analysis page: its React state and the fetches it has in flight
    sAnalysis,      \* scoring harness: analysis under test
    sProject,       \* scoring harness: project under test
    sServer,        \* scoring harness: buildPerformanceMetrics result (0 or 1)
    sClient         \* scoring harness: client factor scores and grade (0 or 1)

reqVars == <<pc, isRetry, sessionUser, projectId, id, project, upload, rawOutput,
             analysisData, response, calls, wrote, kind, path, raced>>
scoreVars == <<sAnalysis, sProject, sServer, sClient>>
adminVars == <<projectsCollection, uploadsCollection, deleteReq, patchResponse>>
moreVars == <<postResponse, uploadPost, page>>
vars == <<audioAnalysis, pc, isRetry, sessionUser, projectId, id, project, upload,
          rawOutput, analysisData, response, calls, wrote, kind, path, raced,
          projectsCollection, uploadsCollection, deleteReq, patchResponse,
          postResponse, uploadPost, page,
          sAnalysis, sProject, sServer, sClient>>

----------------------------------------------------------------------------
(* Arithmetic helpers *)

Max(a, b) == IF a >= b THEN a ELSE b
Min(a, b) == IF a <= b THEN a ELSE b
Abs(a) == IF a >= 0 THEN a ELSE -a

\* floor of p/q for q > 0 (TLC's \div already floors)
FloorDiv(p, q) == p \div q

\* Math.round(p/q), q > 0: nearest integer, ties towards +infinity
Round(p, q) == FloorDiv(2 * p + q, 2 * q)

----------------------------------------------------------------------------
(* Texts *)

Whitespace == {" "}
WordChars == {"a", "b", "'"}        \* the class [\w']
Terminals == {".", "!", "?"}        \* sentence-terminal marks

RECURSIVE TrimLeft(_)
TrimLeft(t) ==
    IF t = <<>> THEN <<>>
    ELSE IF Head(t) \in Whitespace THEN TrimLeft(Tail(t)) ELSE t

RECURSIVE TrimRight(_)
TrimRight(t) ==
    IF t = <<>> THEN <<>>
    ELSE IF t[Len(t)] \in Whitespace THEN TrimRight(SubSeq(t, 1, Len(t) - 1)) ELSE t

\* String.prototype.trim
Trim(t) == TrimRight(TrimLeft(t))

\* String.prototype.split(/\s+/): the pieces between maximal whitespace runs
RECURSIVE SplitWs(_, _, _)
SplitWs(t, cur, inWs) ==
    IF t = <<>> THEN <<cur>>
    ELSE IF Head(t) \in Whitespace
         THEN IF inWs THEN SplitWs(Tail(t), cur, TRUE)
              ELSE <<cur>> \o SplitWs(Tail(t), <<>>, TRUE)
         ELSE SplitWs(Tail(t), Append(cur, Head(t)), FALSE)

RECURSIVE StripLeft(_)
StripLeft(w) ==
    IF w = <<>> THEN <<>>
    ELSE IF Head(w) \notin WordChars THEN StripLeft(Tail(w)) ELSE w

RECURSIVE StripRight(_)
StripRight(w) ==
    IF w = <<>> THEN <<>>
    ELSE IF w[Len(w)] \notin WordChars THEN StripRight(SubSeq(w, 1, Len(w) - 1)) ELSE w

\* w.replace(/^[^\w']+|[^\w']+$/g, "")
StripToken(w) == StripRight(StripLeft(w))

RECURSIVE CountNonEmpty(_)
CountNonEmpty(ws) ==
    IF ws = <<>> THEN 0
    ELSE (IF StripToken(Head(ws)) # <<>> THEN 1 ELSE 0) + CountNonEmpty(Tail(ws))

countWordsNoStrip(text) ==
    IF text = <<>> THEN 0 ELSE Len(SplitWs(Trim(text), <<>>, FALSE))

countWords(text) ==
    IF text = <<>> THEN 0
    ELSE CountNonEmpty(SplitWs(Trim(text), <<>>, FALSE))

\* texts.join(" ")
RECURSIVE JoinSpace(_)
JoinSpace(texts) ==
    IF texts = <<>> THEN <<>>
    ELSE IF Len(texts) = 1 THEN texts[1]
    ELSE texts[1] \o <<" ">> \o JoinSpace(Tail(texts))

\* number of matches of /[.!?](\s|$)/g in t
TerminalMatches(t) ==
    Cardinality({i \in 1..Len(t) :
        /\ t[i] \in Terminals
        /\ (i = Len(t) \/ t[i + 1] \in Whitespace)})

OneSentenceOrMore(entry) == TerminalMatches(Trim(entry.text)) >= 1

\* the .refine() predicate of a timestampedTranscript entry
OneSentence(entry) ==
    LET text == Trim(entry.text) IN
    IF text = <<>> THEN FALSE ELSE TerminalMatches(text) = 1

----------------------------------------------------------------------------
(* Exact fractions: [n |-> numerator, d |-> denominator], d > 0, lowest terms *)

RECURSIVE Gcd(_, _)
Gcd(a, b) == IF b = 0 THEN a ELSE Gcd(b, a % b)

Q(n, d) ==
    LET g == Gcd(Abs(n), Abs(d))
        s == IF d < 0 THEN -1 ELSE 1
    IN  IF n = 0 THEN [n |-> 0, d |-> 1]
        ELSE [n |-> s * (n \div g), d |-> s * (d \div g)]

QInt(i) == [n |-> i, d |-> 1]
QSub(x, y) == Q(x.n * y.d - y.n * x.d, x.d * y.d)
QAdd(x, y) == Q(x.n * y.d + y.n * x.d, x.d * y.d)
QMul(x, y) == Q(x.n * y.n, x.d * y.d)
QDiv(x, y) == Q(x.n * y.d, x.d * y.n)          \* y # 0
QLeq(x, y) == x.n * y.d <= y.n * x.d
QMax(x, y) == IF QLeq(x, y) THEN y ELSE x
QMin(x, y) == IF QLeq(x, y) THEN x ELSE y
QAbs(x) == [n |-> Abs(x.n), d |-> x.d]
QRound(x) == Round(x.n, x.d)

----------------------------------------------------------------------------
(* Schema (zod): AudioAnalysisSchema and its parts *)

GapTypes == {"short", "medium", "long", "excessive"}
SegmentTypes == {"introduction", "body", "conclusion", "transition"}
Severities == {"low", "medium", "high"}

\* concatenation of the sequences in ss
RECURSIVE Flatten(_)
Flatten(ss) == IF ss = <<>> THEN <<>> ELSE Head(ss) \o Flatten(Tail(ss))

\* z.number().min(0).max(10)
InRange0To10(x) == x >= 0 /\ x <= 10

GapAnalysisIssues(o) ==
    LET F(i) == IF o.gaps[i].type \in GapTypes THEN <<>>
                ELSE << <<"gaps", i, "type">> >>
    IN  Flatten([i \in 1..Len(o.gaps) |-> F(i)])

SpeechSegmentIssues(o) ==
    LET F(i) == (IF o.speechSegments[i].type \in SegmentTypes THEN <<>>
                 ELSE << <<"speechSegments", i, "type">> >>)
             \o (IF InRange0To10(o.speechSegments[i].coherenceScore) THEN <<>>
                 ELSE << <<"speechSegments", i, "coherenceScore">> >>)
    IN  Flatten([i \in 1..Len(o.speechSegments) |-> F(i)])

CoherenceIssueIssues(o) ==
    LET F(i) == IF o.coherenceIssues[i].severity \in Severities THEN <<>>
                ELSE << <<"coherenceIssues", i, "severity">> >>
    IN  Flatten([i \in 1..Len(o.coherenceIssues) |-> F(i)])

\* .optional(): an absent array is accepted, a present one is checked entry by entry
TranscriptIssues(o) ==
    IF o.timestampedTranscript = <<>> THEN <<>>
    ELSE LET tt == o.timestampedTranscript[1]
             F(i) == IF OneSentence(tt[i]) THEN <<>>
                     ELSE << <<"timestampedTranscript", i>> >>
         IN  Flatten([i \in 1..Len(tt) |-> F(i)])

OverallIssuesUnchecked(o) == <<>>

OverallIssues(o) ==
    IF InRange0To10(o.overallCoherenceScore) THEN <<>>
    ELSE << <<"overallCoherenceScore">> >>

\* error.issues of AudioAnalysisSchema.parse, as the paths of the failing
\* fields in the order of the schema's keys; <<>> when the value is accepted
SchemaIssues(o) ==
    TranscriptIssues(o) \o GapAnalysisIssues(o) \o SpeechSegmentIssues(o)
        \o CoherenceIssueIssues(o) \o OverallIssues(o)

----------------------------------------------------------------------------
(* Server-side scoring, route.ts *)

getProjectTimeframeSecondsUnguarded(p) == << Q(p.timeframe, 1000) >>

getProjectTimeframeSeconds(p) ==
    IF p.timeframe = 0 \/ p.timeframe <= 0 THEN <<>>
    ELSE << Q(p.timeframe, 1000) >>

IsLongPauseOnly(g) == g.type = "long"

IsLongPause(g) == g.type = "long" \/ g.type = "excessive"

longPauseCountOf(a) == Len(SelectSeq(a.gaps, IsLongPause))

fillerPercentageNoWordsFull(a) ==
    IF a.wordCount > 0
    THEN QMul(Q(a.totalFillerWords, a.wordCount), QInt(100))
    ELSE QInt(100)

fillerPercentageUnscaled(a) ==
    IF a.wordCount > 0 THEN Q(a.totalFillerWords, a.wordCount) ELSE QInt(0)

fillerPercentageOf(a) ==
    IF a.wordCount > 0
    THEN QMul(Q(a.totalFillerWords, a.wordCount), QInt(100))
    ELSE QInt(0)

timeScoreNoFloor(a, p) ==
    LET tfs == getProjectTimeframeSeconds(p) IN
    IF tfs # <<>> /\ tfs[1].n > 0
    THEN LET timeDiff == QAbs(QSub(QInt(a.durationSeconds), tfs[1]))
             maxDiff == QMul(tfs[1], Q(1, 5))
         IN  QMax(QInt(0), QSub(QInt(100), QMul(QDiv(timeDiff, maxDiff), QInt(100))))
    ELSE QInt(100)

timeScoreUnclamped(a, p) ==
    LET tfs == getProjectTimeframeSeconds(p) IN
    IF tfs # <<>> /\ tfs[1].n > 0
    THEN LET timeDiff == QAbs(QSub(QInt(a.durationSeconds), tfs[1]))
             maxDiff == QMax(QMul(tfs[1], Q(1, 5)), QInt(1))
         IN  QSub(QInt(100), QMul(QDiv(timeDiff, maxDiff), QInt(100)))
    ELSE QInt(100)

timeScoreOf(a, p) ==
    LET tfs == getProjectTimeframeSeconds(p) IN
    IF tfs # <<>> /\ tfs[1].n > 0
    THEN LET timeDiff == QAbs(QSub(QInt(a.durationSeconds), tfs[1]))
             maxDiff == QMax(QMul(tfs[1], Q(1, 5)), QInt(1))
         IN  QMax(QInt(0), QSub(QInt(100), QMul(QDiv(timeDiff, maxDiff), QInt(100))))
    ELSE QInt(100)

calculateFactorScores(a, p) ==
    LET timeScore == timeScoreOf(a, p)
        coherenceScore == QMul(Q(a.overallCoherenceScore, 10), QInt(100))
        fillerScore == QMax(QInt(0), QSub(QInt(100), QMul(fillerPercentageOf(a), QInt(5))))
        pauseScore == QMax(QInt(0), QInt(100 - longPauseCountOf(a) * 10))
        Clamp(x) == QMax(QInt(0), QMin(QInt(100), x))
    IN  [time |-> QRound(timeScore),
         coherence |-> QRound(Clamp(coherenceScore)),
         filler |-> QRound(Clamp(fillerScore)),
         pauses |-> QRound(Clamp(pauseScore))]

calculateOverallGradeTruncated(a, p) ==
    LET scores == calculateFactorScores(a, p)
        total == scores.time + scores.coherence + scores.filler + scores.pauses
    IN  total \div 4

calculateOverallGrade(a, p) ==
    LET scores == calculateFactorScores(a, p)
        total == scores.time + scores.coherence + scores.filler + scores.pauses
    IN  Round(total, 4)

buildPerformanceMetrics(a, p) ==
    LET timeGoalSeconds == getProjectTimeframeSeconds(p) IN
    [overallGrade |-> calculateOverallGrade(a, p),
     factorScores |-> calculateFactorScores(a, p),
     details |-> [timeGoalSeconds |-> timeGoalSeconds,
                  timeDeltaSeconds |->
                      IF timeGoalSeconds # <<>>
                      THEN << QSub(QInt(a.durationSeconds), timeGoalSeconds[1]) >>
                      ELSE <<>>,
                  fillerPercentage |-> fillerPercentageOf(a),
                  longPauseCount |-> longPauseCountOf(a),
                  wordsPerMinute |-> a.wpm,
                  averageGapDuration |-> a.averageGapDuration]]

----------------------------------------------------------------------------
(* Client-side scoring of the analysis page.  The client divides without   *)
(* guarding the divisor, so its numbers are JavaScript numbers: a fraction, *)
(* NaN, +Infinity or -Infinity.                                             *)

JsNum(q) == [k |-> "num", q |-> q]
JsNaN == [k |-> "nan", q |-> QInt(0)]
JsInf == [k |-> "inf", q |-> QInt(0)]
JsNegInf == [k |-> "-inf", q |-> QInt(0)]

\* a / b for integers a, b
JsDivInt(a, b) ==
    IF b # 0 THEN JsNum(Q(a, b))
    ELSE IF a > 0 THEN JsInf ELSE IF a < 0 THEN JsNegInf ELSE JsNaN

\* x * c for a fraction c > 0
JsScale(x, c) == IF x.k = "num" THEN JsNum(QMul(x.q, c)) ELSE x

\* c - x for a fraction c
JsSubFrom(c, x) ==
    IF x.k = "num" THEN JsNum(QSub(c, x.q))
    ELSE IF x.k = "inf" THEN JsNegInf
    ELSE IF x.k = "-inf" THEN JsInf ELSE JsNaN

\* Math.max(0, x): NaN if x is NaN
JsMax0(x) ==
    IF x.k = "num" THEN JsNum(QMax(QInt(0), x.q))
    ELSE IF x.k = "-inf" THEN JsNum(QInt(0)) ELSE x

\* x + c for a fraction c
JsAddQ(x, c) == IF x.k = "num" THEN JsNum(QAdd(x.q, c)) ELSE x

\* Math.round(x), as [k, v] with v the integer when k = "num"
JsRound(x) == [k |-> x.k, v |-> IF x.k = "num" THEN QRound(x.q) ELSE 0]

clientTimeScore(a, p) ==
    IF p.timeframe > 0
    THEN LET timeDiff == QAbs(QSub(QInt(a.durationSeconds), QInt(p.timeframe)))
             maxDiff == QMul(QInt(p.timeframe), Q(1, 5))
         IN  QMax(QInt(0), QSub(QInt(100), QMul(QDiv(timeDiff, maxDiff), QInt(100))))
    ELSE QInt(100)

clientCoherenceScore(a) == QMul(Q(a.overallCoherenceScore, 10), QInt(100))

clientFillerScore(a) ==
    LET fillerPercentage == JsScale(JsDivInt(a.totalFillerWords, a.wordCount), QInt(100))
    IN  JsMax0(JsSubFrom(QInt(100), JsScale(fillerPercentage, QInt(5))))

clientPauseScore(a) == QMax(QInt(0), QInt(100 - longPauseCountOf(a) * 10))

clientCalculateFactorScores(a, p) ==
    [time |-> JsRound(JsNum(clientTimeScore(a, p))),
     coherence |-> JsRound(JsNum(clientCoherenceScore(a))),
     filler |-> JsRound(clientFillerScore(a)),
     pauses |-> JsRound(JsNum(clientPauseScore(a)))]

clientCalculateGrade(a, p) ==
    LET rest == QAdd(clientTimeScore(a, p),
                     QAdd(clientCoherenceScore(a), clientPauseScore(a)))
        totalScore == JsScale(JsAddQ(clientFillerScore(a), rest), Q(1, 4))
    IN  JsRound(totalScore)

----------------------------------------------------------------------------
(* Scoring harness: the scoring functions applied to bounded inputs *)

MaxDuration == 6
MaxWords == 4
MaxFillers == 3
MaxLongGaps == 11

Timeframes == {0, 1, 1500, 3000, 60000}       \* project.timeframe, milliseconds
Durations == (-1 .. MaxDuration) \cup {65}
CoherenceScores == {0, 8, 10}

\* l long/excessive gaps framed by a medium and a short one
GapsOf(l) ==
    << [duration |-> 2, type |-> "medium"] >>
    \o [i \in 1..l |-> [duration |-> 5, type |-> IF i % 2 = 1 THEN "long" ELSE "excessive"]]
    \o << [duration |-> 1, type |-> "short"] >>

ScoreAnalyses ==
    [durationSeconds : Durations,
     wordCount : (0 .. MaxWords) \cup {15, 40},
     totalFillerWords : -1 .. MaxFillers,
     overallCoherenceScore : CoherenceScores,
     gaps : {GapsOf(l) : l \in 0 .. MaxLongGaps},
     wpm : {0},
     averageGapDuration : {0}]

----------------------------------------------------------------------------
(* The world of the request model: users, projects, uploads, oracle answers *)

Requests == {"r1", "r2"}                   \* concurrently served GET requests
SessionUsers == {"", "u1", "u2"}           \* "" = no session
ProjectIds == {"p1", "p2"}
UploadIds == {"a1", "a2"}

ProjectRows ==
    << [id |-> "p1", userId |-> "u1", name |-> "talk", timeframe |-> 60000],
       [id |-> "p2", userId |-> "u2", name |-> "pitch", timeframe |-> 0] >>

\* "a2" names no upload
UploadRows ==
    << [id |-> "a1", userId |-> "u1", projectId |-> "p1", fileName |-> "talk.mp3",
        fileHash |-> "h1"] >>

\* POST /api/uploads/[project] requests that can be in service at once
UploadSlots == {"s1", "s2"}

\* "a b" (2 words) with sentences "a b." and "a!" (3 words); the oracle claims 999
Output1 ==
    [transcript |-> <<"a", " ", "b">>,
     timestampedTranscript |->
        << << [text |-> <<"a", " ", "b", ".">>], [text |-> <<" ", "a", "!">>] >> >>,
     durationSeconds |-> 65, wordCount |-> 999, wpm |-> 999,
     fillerWords |-> <<"um">>, totalFillerWords |-> 1,
     gaps |-> << [duration |-> 5, type |-> "long"], [duration |-> 2, type |-> "medium"] >>,
     averageGapDuration |-> 4,
     speechSegments |-> << [type |-> "body", coherenceScore |-> 8] >>,
     coherenceIssues |-> << [severity |-> "low"] >>,
     overallCoherenceScore |-> 8,
     suggestions |-> <<"slow down">>]

\* no timestampedTranscript; " b - 'a  . " has 2 words; duration 0
Output2 ==
    [transcript |-> <<" ", "b", " ", "-", " ", "'", "a", " ", " ", ".", " ">>,
     timestampedTranscript |-> <<>>,
     durationSeconds |-> 0, wordCount |-> 7, wpm |-> 50,
     fillerWords |-> <<>>, totalFillerWords |-> 5,
     gaps |-> <<>>,
     averageGapDuration |-> 0,
     speechSegments |-> <<>>,
     coherenceIssues |-> <<>>,
     overallCoherenceScore |-> 5,
     suggestions |-> <<>>]

\* an empty timestampedTranscript array; "a a a a" in 30 seconds
Output3 ==
    [transcript |-> <<"a", " ", "a", " ", "a", " ", "a">>,
     timestampedTranscript |-> << <<>> >>,
     durationSeconds |-> 30, wordCount |-> 1, wpm |-> 0,
     fillerWords |-> <<"uh", "like">>, totalFillerWords |-> 2,
     gaps |-> << [duration |-> 8, type |-> "excessive"] >>,
     averageGapDuration |-> 8,
     speechSegments |-> << [type |-> "introduction", coherenceScore |-> 10] >>,
     coherenceIssues |-> << [severity |-> "high"] >>,
     overallCoherenceScore |-> 10,
     suggestions |-> <<"pause less">>]

ValidOutputs == {Output1, Output2, Output3}

\* answers that break an enumeration or a [0,10] range
EnumRangeViolations ==
    { [Output1 EXCEPT !.gaps[1].type = "huge"],
      [Output1 EXCEPT !.speechSegments[1].type = "outro"],
      [Output1 EXCEPT !.coherenceIssues[1].severity = "critical"],
      [Output1 EXCEPT !.speechSegments[1].coherenceScore = 11],
      [Output1 EXCEPT !.overallCoherenceScore = -1],
      [Output3 EXCEPT !.gaps[1].type = "huge", !.overallCoherenceScore = 11] }

\* answers whose timestampedTranscript breaks the one-sentence rule
SentenceViolations ==
    { [Output1 EXCEPT !.timestampedTranscript =
          << << [text |-> <<"a", ".", " ", "b", ".">>] >> >>],
      [Output1 EXCEPT !.timestampedTranscript =
          << << [text |-> <<"a", " ", "b">>] >> >>],
      [Output1 EXCEPT !.timestampedTranscript =
          << << [text |-> <<"a", " ", "b", ".">>], [text |-> <<" ">>] >> >>] }

OracleJson == ValidOutputs \cup EnumRangeViolations \cup SentenceViolations

\* what generateContent can do: throw, answer without text, answer with text
\* that is not JSON, or answer with JSON text
OracleOutcomes ==
    { [type |-> t, value |-> Output2] : t \in {"throws", "noText", "notJson"} }
    \cup { [type |-> "json", value |-> o] : o \in OracleJson }

----------------------------------------------------------------------------
(* Word/timing normalisation and the shapes written and returned by GET *)

TextsOf(entries) == [i \in 1..Len(entries) |-> entries[i].text]

\* the text the words are counted in
reconstructedTranscript(o) ==
    IF o.timestampedTranscript # <<>> /\ Len(o.timestampedTranscript[1]) > 0
    THEN JoinSpace(TextsOf(o.timestampedTranscript[1]))
    ELSE o.transcript

serverWordCount(o) == countWords(reconstructedTranscript(o))

serverWpmReported(o) == o.wpm

serverWpm(o) ==
    LET durationSec == o.durationSeconds IN
    IF durationSec > 0 THEN Round(serverWordCount(o) * 60, durationSec) ELSE 0

NormalizeKeepReported(o) == o

\* analysisData after wordCount and wpm were overwritten
Normalize(o) ==
    [o EXCEPT !.wordCount = serverWordCount(o), !.wpm = serverWpm(o)]

\* createData: the row written by prisma.audioAnalysis.create
createData(uploadId, ad, performanceMetrics) ==
    [uploadId |-> uploadId,
     transcript |-> ad.transcript,
     timestampedTranscript |-> ad.timestampedTranscript,
     durationSeconds |-> ad.durationSeconds,
     wordCount |-> ad.wordCount,
     wpm |-> ad.wpm,
     fillerWords |-> ad.fillerWords,
     totalFillerWords |-> ad.totalFillerWords,
     gaps |-> ad.gaps,
     averageGapDuration |-> ad.averageGapDuration,
     speechSegments |-> ad.speechSegments,
     sentenceIssues |-> ad.coherenceIssues,
     overallCoherenceScore |-> ad.overallCoherenceScore,
     suggestions |-> ad.suggestions,
     performance |-> <<performanceMetrics>>]

updateDataKeepTranscript(row, ad, performanceMetrics) ==
    [createData(row.uploadId, ad, performanceMetrics) EXCEPT
        !.transcript = row.transcript,
        !.timestampedTranscript =
            IF ad.timestampedTranscript # <<>> THEN ad.timestampedTranscript
            ELSE row.timestampedTranscript]

\* the row after prisma.audioAnalysis.update with updateData: the key
\* timestampedTranscript is part of updateData only when analysisData has it
updateData(row, ad, performanceMetrics) ==
    [createData(row.uploadId, ad, performanceMetrics) EXCEPT
        !.timestampedTranscript =
            IF ad.timestampedTranscript # <<>> THEN ad.timestampedTranscript
            ELSE row.timestampedTranscript]

\* cachedAnalysis: the analysis fields of a stored row, as returned on a hit
cachedAnalysis(row) ==
    [transcript |-> row.transcript,
     durationSeconds |-> row.durationSeconds,
     wordCount |-> row.wordCount,
     wpm |-> row.wpm,
     fillerWords |-> row.fillerWords,
     totalFillerWords |-> row.totalFillerWords,
     gaps |-> row.gaps,
     averageGapDuration |-> row.averageGapDuration,
     speechSegments |-> row.speechSegments,
     coherenceIssues |-> row.sentenceIssues,
     timestampedTranscript |-> row.timestampedTranscript,
     overallCoherenceScore |-> row.overallCoherenceScore,
     suggestions |-> row.suggestions]

\* { ...analysis, performance }
WithPerformance(a, perf) ==
    [transcript |-> a.transcript,
     durationSeconds |-> a.durationSeconds,
     wordCount |-> a.wordCount,
     wpm |-> a.wpm,
     fillerWords |-> a.fillerWords,
     totalFillerWords |-> a.totalFillerWords,
     gaps |-> a.gaps,
     averageGapDuration |-> a.averageGapDuration,
     speechSegments |-> a.speechSegments,
     coherenceIssues |-> a.coherenceIssues,
     timestampedTranscript |-> a.timestampedTranscript,
     overallCoherenceScore |-> a.overallCoherenceScore,
     suggestions |-> a.suggestions,
     performance |-> perf]

\* NextResponse.json bodies with their status
ErrorResponse(status, error, message, details) ==
    [status |-> status, error |-> error, message |-> message, details |-> details,
     success |-> FALSE, cached |-> FALSE, analysis |-> <<>>]

SuccessResponse(a, perf, cached) ==
    [status |-> 200, error |-> "", message |-> "", details |-> <<>>,
     success |-> TRUE, cached |-> cached, analysis |-> <<WithPerformance(a, perf)>>]

Unauthorized == ErrorResponse(401, "Unauthorized", "", <<>>)
ProjectNotFound == ErrorResponse(404, "Project not found", "", <<>>)
UploadNotFound == ErrorResponse(404, "Upload not found", "", <<>>)
NoResponseFromAI == ErrorResponse(500, "No response from AI", "", <<>>)
InvalidAnalysisFormat(issues) ==
    ErrorResponse(500, "Invalid analysis format from AI", "", issues)
\* the catch-all: error.message travels in the body
InternalServerError(message) ==
    ErrorResponse(500, "Internal server error", message, <<>>)

----------------------------------------------------------------------------
(* The audioAnalysis collection *)

RowsOf(rows, uploadId) == SelectSeq(rows, LAMBDA row : row.uploadId = uploadId)

\* findFirst(... include: { analysis: true }): the upload's analysis, if any
AnalysisOf(rows, uploadId) ==
    IF RowsOf(rows, uploadId) = <<>> THEN <<>> ELSE << RowsOf(rows, uploadId)[1] >>

UploadIdFree(rows, uploadId) == TRUE

\* the unique index on audioAnalysis.uploadId admits the row
UploadIdUnique(rows, uploadId) == RowsOf(rows, uploadId) = <<>>

\* rows with the upload's row replaced by F(row)
ReplaceRow(rows, uploadId, newRow) ==
    [i \in 1..Len(rows) |-> IF rows[i].uploadId = uploadId THEN newRow ELSE rows[i]]

----------------------------------------------------------------------------
(* GET /api/analyze/[project]/[id]: one action per awaited step.  When the  *)
(* handler returns, its locals are gone: only the response and the notes    *)
(* calls, wrote, kind and path stay until the slot serves the next request. *)

\* a row written before performance was stored with the analysis
LegacyRow ==
    [createData("a1", Normalize(Output3), buildPerformanceMetrics(Normalize(Output3), ProjectRows[1]))
        EXCEPT !.performance = <<>>]

NoUpload == [fileName |-> "", analysis |-> <<>>]

CacheHitIgnored(analysis, retry) == FALSE

\* upload.analysis && !isRetry
CacheHit(analysis, retry) == analysis # <<>> /\ ~retry

ReqInit ==
    /\ pc = [r \in Requests |-> "idle"]
    /\ isRetry = [r \in Requests |-> FALSE]
    /\ sessionUser = [r \in Requests |-> ""]
    /\ projectId = [r \in Requests |-> "p1"]
    /\ id = [r \in Requests |-> "a1"]
    /\ project = [r \in Requests |-> <<>>]
    /\ upload = [r \in Requests |-> NoUpload]
    /\ rawOutput = [r \in Requests |-> <<>>]
    /\ analysisData = [r \in Requests |-> <<>>]
    /\ response = [r \in Requests |-> <<>>]
    /\ calls = [r \in Requests |-> 0]
    /\ wrote = [r \in Requests |-> "no"]
    /\ kind = [r \in Requests |-> ""]
    /\ path = [r \in Requests |-> ""]
    /\ raced = [r \in Requests |-> FALSE]

ScoreIdle ==
    /\ sAnalysis = [durationSeconds |-> 0, wordCount |-> 0, totalFillerWords |-> 0,
                    overallCoherenceScore |-> 0, gaps |-> GapsOf(0), wpm |-> 0,
                    averageGapDuration |-> 0]
    /\ sProject = [timeframe |-> 0]
    /\ sServer = <<>>
    /\ sClient = <<>>

\* responses of DELETE /api/uploads/[project]/[id]
DeleteResponse(status, error, success) ==
    [status |-> status, error |-> error, success |-> success]

\* no DELETE request is being served
DeleteIdle == [pc |-> "idle", user |-> "", project |-> "p1", id |-> "a1", response |-> <<>>]

AdminIdle ==
    /\ projectsCollection = ProjectRows
    /\ uploadsCollection = UploadRows
    /\ deleteReq = DeleteIdle
    /\ patchResponse = <<>>

\* the analysis page after mount: useState defaults, the session still pending
PageMounted ==
    [isPending |-> TRUE, analysis |-> <<>>, isLoading |-> FALSE, errorMessage |-> "",
     hasFetched |-> FALSE, effectDue |-> FALSE, fetches |-> {}, issued |-> 0, stored |-> 0]

\* no POST /api/uploads/[project] request is being served
UploadPostIdle ==
    [pc |-> "idle", user |-> "", projectId |-> "p1", fileHash |-> "", response |-> <<>>]

MoreIdle ==
    /\ postResponse = <<>>
    /\ uploadPost = [s \in UploadSlots |-> UploadPostIdle]
    /\ page = PageMounted

Init ==
    /\ audioAnalysis \in {<<>>, <<LegacyRow>>}
    /\ ReqInit
    /\ ScoreIdle
    /\ AdminIdle
    /\ MoreIdle

\* the response is sent and the handler returns
Respond(r, resp, k) ==
    /\ response' = [response EXCEPT ![r] = <<resp>>]
    /\ kind' = [kind EXCEPT ![r] = k]
    /\ pc' = [pc EXCEPT ![r] = "done"]
    /\ isRetry' = [isRetry EXCEPT ![r] = FALSE]
    /\ sessionUser' = [sessionUser EXCEPT ![r] = ""]
    /\ projectId' = [projectId EXCEPT ![r] = "p1"]
    /\ id' = [id EXCEPT ![r] = "a1"]
    /\ project' = [project EXCEPT ![r] = <<>>]
    /\ upload' = [upload EXCEPT ![r] = NoUpload]

\* the handler goes on to its next await
Goto(r, next) ==
    /\ pc' = [pc EXCEPT ![r] = next]
    /\ UNCHANGED <<response, kind>>

\* a request arrives
Start(r) ==
    /\ pc[r] \in {"idle", "done"}
    /\ \E u \in SessionUsers, p \in ProjectIds, a \in UploadIds, retry \in BOOLEAN :
          /\ sessionUser' = [sessionUser EXCEPT ![r] = u]
          /\ projectId' = [projectId EXCEPT ![r] = p]
          /\ id' = [id EXCEPT ![r] = a]
          /\ isRetry' = [isRetry EXCEPT ![r] = retry]
    /\ pc' = [pc EXCEPT ![r] = "session"]
    /\ rawOutput' = [rawOutput EXCEPT ![r] = <<>>]
    /\ analysisData' = [analysisData EXCEPT ![r] = <<>>]
    /\ response' = [response EXCEPT ![r] = <<>>]
    /\ calls' = [calls EXCEPT ![r] = 0]
    /\ wrote' = [wrote EXCEPT ![r] = "no"]
    /\ kind' = [kind EXCEPT ![r] = ""]
    /\ path' = [path EXCEPT ![r] = ""]
    /\ raced' = [raced EXCEPT ![r] = FALSE]
    /\ UNCHANGED <<project, upload, audioAnalysis, scoreVars, adminVars, moreVars>>

GetSessionSkipped(r) ==
    /\ pc[r] = "session"
    /\ Goto(r, "project")
    /\ UNCHANGED <<isRetry, sessionUser, projectId, id, project, upload>>
    /\ UNCHANGED <<rawOutput, analysisData, calls, wrote, path, raced,
                   audioAnalysis, scoreVars, adminVars, moreVars>>

\* await auth.api.getSession; 401 without a user
GetSession(r) ==
    /\ pc[r] = "session"
    /\ IF sessionUser[r] = ""
       THEN Respond(r, Unauthorized, "Unauthorized")
       ELSE /\ Goto(r, "project")
            /\ UNCHANGED <<isRetry, sessionUser, projectId, id, project, upload>>
    /\ UNCHANGED <<rawOutput, analysisData, calls, wrote, path, raced,
                   audioAnalysis, scoreVars, adminVars, moreVars>>

\* await prisma.project.findFirst({ id, userId }); 404 when there is none
FindProject(r) ==
    /\ pc[r] = "project"
    /\ LET found == SelectSeq(projectsCollection,
                        LAMBDA row : row.id = projectId[r] /\ row.userId = sessionUser[r])
       IN  IF found = <<>>
           THEN Respond(r, ProjectNotFound, "NotFound")
           ELSE /\ project' = [project EXCEPT ![r] = <<found[1]>>]
                /\ Goto(r, "upload")
                /\ UNCHANGED <<isRetry, sessionUser, projectId, id, upload>>
    /\ UNCHANGED <<rawOutput, analysisData, calls, wrote, path, raced,
                   audioAnalysis, scoreVars, adminVars, moreVars>>

FindUploadInvalidating(r) ==
    /\ pc[r] = "upload"
    /\ LET found == SelectSeq(uploadsCollection,
                        LAMBDA row : /\ row.id = id[r]
                                     /\ row.userId = sessionUser[r]
                                     /\ row.projectId = projectId[r])
           analysis == AnalysisOf(audioAnalysis, id[r])
       IN  IF found = <<>>
           THEN /\ Respond(r, UploadNotFound, "NotFound")
                /\ UNCHANGED path
           ELSE IF CacheHit(analysis, isRetry[r])
           THEN IF analysis[1].performance # <<>>
                THEN /\ Respond(r, SuccessResponse(cachedAnalysis(analysis[1]),
                                                   analysis[1].performance, TRUE),
                                "Success")
                     /\ path' = [path EXCEPT ![r] = "hit"]
                ELSE /\ upload' = [upload EXCEPT ![r] =
                                      [fileName |-> found[1].fileName, analysis |-> analysis]]
                     /\ Goto(r, "backfill")
                     /\ path' = [path EXCEPT ![r] = "backfill"]
                     /\ UNCHANGED <<isRetry, sessionUser, projectId, id, project>>
           ELSE /\ upload' = [upload EXCEPT ![r] =
                                 [fileName |-> found[1].fileName, analysis |-> analysis]]
                /\ Goto(r, "oracle")
                /\ path' = [path EXCEPT ![r] = IF analysis # <<>> THEN "retry" ELSE ""]
                /\ UNCHANGED <<isRetry, sessionUser, projectId, id, project>>
    /\ audioAnalysis' = IF isRetry[r]
                        THEN SelectSeq(audioAnalysis, LAMBDA row : row.uploadId # id[r])
                        ELSE audioAnalysis
    /\ UNCHANGED <<rawOutput, analysisData, calls, wrote, raced, scoreVars, adminVars, moreVars>>

\* await prisma.audioUpload.findFirst({ id, userId, projectId }, include analysis);
\* 404 when there is none; then the cache check: a hit with performance is
\* answered at once, a hit without performance goes on to the backfill
\* update, everything else goes on to the oracle
FindUpload(r) ==
    /\ pc[r] = "upload"
    /\ LET found == SelectSeq(uploadsCollection,
                        LAMBDA row : /\ row.id = id[r]
                                     /\ row.userId = sessionUser[r]
                                     /\ row.projectId = projectId[r])
           analysis == AnalysisOf(audioAnalysis, id[r])
       IN  IF found = <<>>
           THEN /\ Respond(r, UploadNotFound, "NotFound")
                /\ UNCHANGED path
           ELSE IF CacheHit(analysis, isRetry[r])
           THEN IF analysis[1].performance # <<>>
                THEN /\ Respond(r, SuccessResponse(cachedAnalysis(analysis[1]),
                                                   analysis[1].performance, TRUE),
                                "Success")
                     /\ path' = [path EXCEPT ![r] = "hit"]
                ELSE /\ upload' = [upload EXCEPT ![r] =
                                      [fileName |-> found[1].fileName, analysis |-> analysis]]
                     /\ Goto(r, "backfill")
                     /\ path' = [path EXCEPT ![r] = "backfill"]
                     /\ UNCHANGED <<isRetry, sessionUser, projectId, id, project>>
           ELSE /\ upload' = [upload EXCEPT ![r] =
                                 [fileName |-> found[1].fileName, analysis |-> analysis]]
                /\ Goto(r, "oracle")
                /\ path' = [path EXCEPT ![r] = IF analysis # <<>> THEN "retry" ELSE ""]
                /\ UNCHANGED <<isRetry, sessionUser, projectId, id, project>>
    /\ UNCHANGED <<rawOutput, analysisData, calls, wrote, raced, audioAnalysis, scoreVars, adminVars, moreVars>>

BackfillNotPersisted(r) ==
    /\ pc[r] = "backfill"
    /\ LET cached == cachedAnalysis(upload[r].analysis[1])
           performance == buildPerformanceMetrics(cached, project[r][1])
       IN  /\ wrote' = [wrote EXCEPT ![r] = "ok"]
           /\ Respond(r, SuccessResponse(cached, <<performance>>, TRUE), "Success")
    /\ UNCHANGED <<audioAnalysis, rawOutput, analysisData, calls, path, raced,
                   scoreVars, adminVars, moreVars>>

\* cache hit without performance: buildPerformanceMetrics(cachedAnalysis, project),
\* await prisma.audioAnalysis.update({ uploadId }, { performance }); the update
\* throws when the row is gone
Backfill(r) ==
    /\ pc[r] = "backfill"
    /\ LET cached == cachedAnalysis(upload[r].analysis[1])
           performance == buildPerformanceMetrics(cached, project[r][1])
           row == AnalysisOf(audioAnalysis, id[r])
       IN  IF row = <<>>
           THEN /\ Respond(r, InternalServerError("Record to update not found"),
                           "InternalError")
                /\ wrote' = [wrote EXCEPT ![r] = "failed"]
                /\ UNCHANGED audioAnalysis
           ELSE /\ audioAnalysis' = ReplaceRow(audioAnalysis, id[r],
                                        [row[1] EXCEPT !.performance = <<performance>>])
                /\ wrote' = [wrote EXCEPT ![r] = "ok"]
                /\ Respond(r, SuccessResponse(cached, <<performance>>, TRUE), "Success")
    /\ UNCHANGED <<rawOutput, analysisData, calls, path, raced, scoreVars, adminVars, moreVars>>

OracleCallRetrying(r) ==
    /\ pc[r] = "oracle"
    /\ calls' = [calls EXCEPT ![r] = @ + 1]
    /\ rawOutput' = [rawOutput EXCEPT ![r] = << [type |-> "throws", value |-> Output2] >>]
    /\ IF calls[r] = 0
       THEN /\ Goto(r, "oracle")
            /\ UNCHANGED <<isRetry, sessionUser, projectId, id, project, upload>>
       ELSE Respond(r, InternalServerError("fetch failed"), "OracleUnavailable")
    /\ UNCHANGED <<analysisData, wrote, path, raced, audioAnalysis, scoreVars, adminVars, moreVars>>

\* await ai.models.generateContent: a single attempt.  A throw lands in the
\* catch-all; no text is answered with 500; the text is JSON.parse'd (a
\* SyntaxError lands in the catch-all) and parsed by the schema (a ZodError is
\* answered with its issues); an accepted value is normalised
OracleCall(r) ==
    /\ pc[r] = "oracle"
    /\ calls' = [calls EXCEPT ![r] = @ + 1]
    /\ \E outcome \in OracleOutcomes :
          /\ rawOutput' = [rawOutput EXCEPT ![r] = <<outcome>>]
          /\ CASE outcome.type = "throws" ->
                    /\ Respond(r, InternalServerError("fetch failed"), "OracleUnavailable")
                    /\ UNCHANGED analysisData
               [] outcome.type = "noText" ->
                    /\ Respond(r, NoResponseFromAI, "OracleUnavailable")
                    /\ UNCHANGED analysisData
               [] outcome.type = "notJson" ->
                    /\ Respond(r, InternalServerError("Unexpected token"), "InternalError")
                    /\ UNCHANGED analysisData
               [] outcome.type = "json" /\ SchemaIssues(outcome.value) # <<>> ->
                    /\ Respond(r, InvalidAnalysisFormat(SchemaIssues(outcome.value)),
                               "SchemaViolation")
                    /\ UNCHANGED analysisData
               [] outcome.type = "json" /\ SchemaIssues(outcome.value) = <<>> ->
                    /\ analysisData' = [analysisData EXCEPT ![r] = <<Normalize(outcome.value)>>]
                    /\ Goto(r, "persist")
                    /\ UNCHANGED <<isRetry, sessionUser, projectId, id, project, upload>>
    /\ UNCHANGED <<wrote, path, raced, audioAnalysis, scoreVars, adminVars, moreVars>>

\* requests for the same upload that passed the cache check and have not persisted
InFlight(r) ==
    {q \in Requests \ {r} : id[q] = id[r] /\ pc[q] \in {"oracle", "persist"}}

\* "Save analysis to database": update when the upload read had an analysis
\* and this is a retry, create otherwise; a write that throws lands in the
\* catch-all
Persist(r) ==
    /\ pc[r] = "persist"
    /\ LET ad == analysisData[r][1]
           performanceMetrics == buildPerformanceMetrics(ad, project[r][1])
           row == AnalysisOf(audioAnalysis, id[r])
           ok(rows) ==
               /\ audioAnalysis' = rows
               /\ wrote' = [wrote EXCEPT ![r] = "ok"]
               /\ Respond(r, SuccessResponse(ad, <<performanceMetrics>>, FALSE), "Success")
           failed(message) ==
               /\ wrote' = [wrote EXCEPT ![r] = "failed"]
               /\ Respond(r, InternalServerError(message), "InternalError")
               /\ UNCHANGED audioAnalysis
       IN  \E dbUp \in BOOLEAN :
              IF upload[r].analysis # <<>> /\ isRetry[r]
              THEN /\ path' = [path EXCEPT ![r] = "update"]
                   /\ IF ~dbUp THEN failed("Server selection timeout")
                      ELSE IF row = <<>>
                      THEN failed("Record to update not found")
                      ELSE ok(ReplaceRow(audioAnalysis, id[r],
                                         updateData(row[1], ad, performanceMetrics)))
              ELSE /\ path' = [path EXCEPT ![r] = "create"]
                   /\ IF ~dbUp THEN failed("Server selection timeout")
                      ELSE IF ~UploadIdUnique(audioAnalysis, id[r])
                      THEN failed("Unique constraint failed")
                      ELSE ok(Append(audioAnalysis,
                                     createData(id[r], ad, performanceMetrics)))
    /\ raced' = [q \in Requests |->
                    IF q = r THEN FALSE
                    ELSE IF q \in InFlight(r) THEN TRUE ELSE raced[q]]
    /\ UNCHANGED <<rawOutput, analysisData, calls, scoreVars, adminVars, moreVars>>

----------------------------------------------------------------------------
(* DELETE /api/uploads/[project]/[id]: one action per awaited step *)

\* rows without its k-th row
RemoveAt(rows, k) == SubSeq(rows, 1, k - 1) \o SubSeq(rows, k + 1, Len(rows))

\* the least index of hits
First(hits) == CHOOSE i \in hits : \A j \in hits : i <= j

\* uploadsCollection.deleteOne({ _id: id }): the first matching row goes
DeleteOneUpload(rows, uploadId) ==
    LET hits == {i \in 1..Len(rows) : rows[i].id = uploadId}
    IN  IF hits = {} THEN rows ELSE RemoveAt(rows, First(hits))

DeleteOneAnalysisKept(rows, uploadId) == rows

\* analysisCollection.deleteOne({ uploadId: id }): the first matching row goes
DeleteOneAnalysis(rows, uploadId) ==
    LET hits == {i \in 1..Len(rows) : rows[i].uploadId = uploadId}
    IN  IF hits = {} THEN rows ELSE RemoveAt(rows, First(hits))

\* the analysis rows left by prisma.audioUpload.delete: the relation
\* AudioAnalysis.upload is declared with onDelete: Cascade
CascadeDelete(rows, uploadId) ==
    SelectSeq(rows, LAMBDA row : row.uploadId # uploadId)

\* the DELETE response is sent and the handler returns
DeleteRespond(resp) ==
    deleteReq' = [deleteReq EXCEPT !.pc = "done", !.response = <<resp>>]

\* a DELETE request arrives
DeleteStart ==
    /\ deleteReq.pc \in {"idle", "done"}
    /\ \E u \in SessionUsers, p \in ProjectIds, a \in UploadIds :
          deleteReq' = [pc |-> "session", user |-> u, project |-> p, id |-> a,
                        response |-> <<>>]
    /\ UNCHANGED <<audioAnalysis, reqVars, scoreVars, moreVars, projectsCollection,
                   uploadsCollection, patchResponse>>

\* await auth.api.getSession; 401 without a user
DeleteGetSession ==
    /\ deleteReq.pc = "session"
    /\ IF deleteReq.user = ""
       THEN DeleteRespond(DeleteResponse(401, "Unauthorized", FALSE))
       ELSE deleteReq' = [deleteReq EXCEPT !.pc = "find"]
    /\ UNCHANGED <<audioAnalysis, reqVars, scoreVars, moreVars, projectsCollection,
                   uploadsCollection, patchResponse>>

\* await uploadsCollection.findOne({ _id, userId, projectId }); 404 when there is none
DeleteFindUpload ==
    /\ deleteReq.pc = "find"
    /\ LET found == SelectSeq(uploadsCollection,
                        LAMBDA row : /\ row.id = deleteReq.id
                                     /\ row.userId = deleteReq.user
                                     /\ row.projectId = deleteReq.project)
       IN  IF found = <<>>
           THEN DeleteRespond(DeleteResponse(404, "Upload not found", FALSE))
           ELSE deleteReq' = [deleteReq EXCEPT !.pc = "deleteUpload"]
    /\ UNCHANGED <<audioAnalysis, reqVars, scoreVars, moreVars, projectsCollection,
                   uploadsCollection, patchResponse>>

\* await uploadsCollection.deleteOne({ _id: id }); a throw lands in the catch
DeleteUpload ==
    /\ deleteReq.pc = "deleteUpload"
    /\ \E dbUp \in BOOLEAN :
          IF dbUp
          THEN /\ uploadsCollection' = DeleteOneUpload(uploadsCollection, deleteReq.id)
               /\ deleteReq' = [deleteReq EXCEPT !.pc = "deleteAnalysis"]
          ELSE /\ DeleteRespond(DeleteResponse(500, "Internal server error", FALSE))
               /\ UNCHANGED uploadsCollection
    /\ UNCHANGED <<audioAnalysis, reqVars, scoreVars, moreVars, projectsCollection, patchResponse>>

\* await analysisCollection.deleteOne({ uploadId: id }), then { success: true };
\* a throw lands in the catch
DeleteAnalysis ==
    /\ deleteReq.pc = "deleteAnalysis"
    /\ \E dbUp \in BOOLEAN :
          IF dbUp
          THEN /\ audioAnalysis' = DeleteOneAnalysis(audioAnalysis, deleteReq.id)
               /\ DeleteRespond(DeleteResponse(200, "", TRUE))
          ELSE /\ DeleteRespond(DeleteResponse(500, "Internal server error", FALSE))
               /\ UNCHANGED audioAnalysis
    /\ UNCHANGED <<reqVars, scoreVars, moreVars, projectsCollection, uploadsCollection,
                   patchResponse>>

\* the handler written with prisma: await prisma.audioUpload.delete({ where: { id } }),
\* then { success: true }; a throw lands in the catch
PrismaDeleteUpload ==
    /\ deleteReq.pc = "deleteUpload"
    /\ \E dbUp \in BOOLEAN :
          IF dbUp
          THEN /\ uploadsCollection' = DeleteOneUpload(uploadsCollection, deleteReq.id)
               /\ audioAnalysis' = CascadeDelete(audioAnalysis, deleteReq.id)
               /\ DeleteRespond(DeleteResponse(200, "", TRUE))
          ELSE /\ DeleteRespond(DeleteResponse(500, "Internal server error", FALSE))
               /\ UNCHANGED <<uploadsCollection, audioAnalysis>>
    /\ UNCHANGED <<reqVars, scoreVars, moreVars, projectsCollection, patchResponse>>

----------------------------------------------------------------------------
(* PATCH /api/projects/[id] *)

\* body.timeframe: undefined, null, a number n/d, a number that is not
\* finite, or a value that is no number
PatchTimeframes ==
    { [k |-> "undefined", n |-> 0, d |-> 1],
      [k |-> "null", n |-> 0, d |-> 1],
      [k |-> "number", n |-> 0, d |-> 1],
      [k |-> "number", n |-> 60000, d |-> 1],
      [k |-> "number", n |-> -1, d |-> 1],
      [k |-> "number", n |-> 3, d |-> 2],
      [k |-> "notFinite", n |-> 0, d |-> 1],
      [k |-> "string", n |-> 0, d |-> 1] }

\* body.name is absent or the name the project has
PatchBodies == [name : {<<>>, <<"talk">>}, timeframe : PatchTimeframes]

PatchResponse(status, error, updatedProject) ==
    [status |-> status, error |-> error, project |-> updatedProject]

\* $set: updateData on a project row
PatchedProject(row, body) ==
    [row EXCEPT
        !.name = IF body.name # <<>> THEN body.name[1] ELSE @,
        !.timeframe = IF body.timeframe.k = "undefined" THEN @
                      ELSE IF body.timeframe.k = "null" THEN 0
                      ELSE body.timeframe.n]

PatchTimeframeOpen(tf) == ""

\* the timeframe check of POST and PATCH: the error answered, "" when it passes
PatchTimeframeError(tf) ==
    IF tf.k \in {"undefined", "null"} THEN ""
    ELSE IF tf.k \in {"string", "notFinite"} THEN "Timeframe must be a finite number"
    ELSE IF tf.d # 1 \/ tf.n < 0 THEN "Timeframe must be a non-negative integer"
    ELSE ""

\* the whole handler: session, validation of the body, findOneAndUpdate
PatchWith(u, p, body) ==
    LET tf == body.timeframe
        hits == {i \in 1..Len(projectsCollection) :
                    /\ projectsCollection[i].id = p
                    /\ projectsCollection[i].userId = u}
        answer(resp) == /\ patchResponse' = <<resp>>
                        /\ UNCHANGED projectsCollection
    IN  /\ IF u = ""
           THEN answer(PatchResponse(401, "Unauthorized", <<>>))
           ELSE IF body.name = <<>> /\ tf.k = "undefined"
           THEN answer(PatchResponse(400, "At least one field must be provided", <<>>))
           ELSE IF PatchTimeframeError(tf) # ""
           THEN answer(PatchResponse(400, PatchTimeframeError(tf), <<>>))
           ELSE IF hits = {}
           THEN answer(PatchResponse(404, "Project not found", <<>>))
           ELSE LET k == First(hits)
                    updatedProject == PatchedProject(projectsCollection[k], body)
                IN  /\ projectsCollection' =
                          [projectsCollection EXCEPT ![k] = updatedProject]
                    /\ patchResponse' = <<PatchResponse(200, "", <<updatedProject>>)>>
        /\ UNCHANGED <<audioAnalysis, reqVars, scoreVars, moreVars, uploadsCollection, deleteReq>>

Patch == \E u \in SessionUsers, p \in ProjectIds, body \in PatchBodies : PatchWith(u, p, body)

\* POST /api/projects: body.name is absent or "demo"
PostBodies == [name : {<<>>, <<"demo">>}, timeframe : PatchTimeframes]

\* randomUUID(): an id no stored project has
FreeProjectIds(rows) == {n \in ProjectIds : \A i \in 1..Len(rows) : rows[i].id # n}

\* the whole handler: session, validation of the body, insertOne
PostWith(u, body) ==
    LET tf == body.timeframe
        answer(resp) == /\ postResponse' = <<resp>>
                        /\ UNCHANGED projectsCollection
    IN  /\ FreeProjectIds(projectsCollection) # {}
        /\ IF u = ""
           THEN answer(PatchResponse(401, "Unauthorized", <<>>))
           ELSE IF body.name = <<>>
           THEN answer(PatchResponse(400, "Name is required and must be a string", <<>>))
           ELSE IF PatchTimeframeError(tf) # ""
           THEN answer(PatchResponse(400, PatchTimeframeError(tf), <<>>))
           ELSE LET created ==
                        [id |-> CHOOSE n \in FreeProjectIds(projectsCollection) : TRUE,
                         userId |-> u,
                         name |-> body.name[1],
                         timeframe |-> IF tf.k \in {"undefined", "null"} THEN 0 ELSE tf.n]
                IN  /\ projectsCollection' = Append(projectsCollection, created)
                    /\ postResponse' = <<PatchResponse(200, "", <<created>>)>>
        /\ UNCHANGED <<audioAnalysis, reqVars, scoreVars, uploadsCollection, deleteReq,
                       patchResponse, uploadPost, page>>

Post == \E u \in SessionUsers, body \in PostBodies : PostWith(u, body)

\* a database without projects, or with the projects of the analysis model
ProjectsInit ==
    /\ audioAnalysis = <<>>
    /\ ReqInit
    /\ ScoreIdle
    /\ MoreIdle
    /\ projectsCollection \in {<<>>, ProjectRows}
    /\ uploadsCollection = IF projectsCollection = <<>> THEN <<>> ELSE UploadRows
    /\ deleteReq = DeleteIdle
    /\ patchResponse = <<>>

ProjectsNext == Post \/ Patch

SpecProjects == ProjectsInit /\ [][ProjectsNext]_vars

Next ==
    \E r \in Requests :
        \/ Start(r)
        \/ GetSession(r)
        \/ FindProject(r)
        \/ FindUpload(r)
        \/ Backfill(r)
        \/ OracleCall(r)
        \/ Persist(r)

Spec == Init /\ [][Next]_vars

\* analysis requests served one at a time
SerialGet ==
    \E r \in {"r1"} :
        \/ Start(r)
        \/ GetSession(r)
        \/ FindProject(r)
        \/ FindUpload(r)
        \/ Backfill(r)
        \/ OracleCall(r)
        \/ Persist(r)

\* analysis requests next to DELETE requests for uploads
DeleteNext ==
    \/ SerialGet
    \/ DeleteStart
    \/ DeleteGetSession
    \/ DeleteFindUpload
    \/ DeleteUpload
    \/ DeleteAnalysis
    \/ PrismaDeleteUpload

SpecDelete == Init /\ [][DeleteNext]_vars

\* analysis requests next to PATCH requests for projects
PatchNext ==
    \/ SerialGet
    \/ Patch

SpecPatch == Init /\ [][PatchNext]_vars

----------------------------------------------------------------------------
(* POST /api/uploads/[project] *)

\* rows the audioUpload collection may hold before new POST requests are refused
MaxUploads == 3

\* the form's file: absent, over 15 MB, not audio, or audio with the SHA-256 of its bytes
UploadFiles ==
    { [kind |-> k, fileHash |-> ""] : k \in {"none", "large", "text"} }
    \cup { [kind |-> "audio", fileHash |-> h] : h \in {"h1", "h2"} }

\* randomUUID(): an id no stored upload has
NewUploadId(rows) ==
    CHOOSE n \in {"n1", "n2", "n3", "n4", "n5"} : \A i \in 1..Len(rows) : rows[i].id # n

UploadResponse(status, error, doc) ==
    [status |-> status, error |-> error, upload |-> doc]

\* the response is sent and the handler returns
UploadRespond(s, resp) ==
    uploadPost' = [uploadPost EXCEPT ![s] = [UploadPostIdle EXCEPT !.pc = "done",
                                                                   !.response = <<resp>>]]

\* the request arrives; session, form and file are checked and the hash is computed
UploadStart(s) ==
    /\ uploadPost[s].pc \in {"idle", "done"}
    /\ Len(uploadsCollection) < MaxUploads
    /\ \E user \in SessionUsers, p \in ProjectIds, file \in UploadFiles :
          IF user = ""
          THEN UploadRespond(s, UploadResponse(401, "Unauthorized", <<>>))
          ELSE IF file.kind = "large"
          THEN UploadRespond(s, UploadResponse(413,
                   "File too large. Maximum allowed size is 15MB.", <<>>))
          ELSE IF file.kind = "none"
          THEN UploadRespond(s, UploadResponse(400, "No file provided", <<>>))
          ELSE IF file.kind = "text"
          THEN UploadRespond(s, UploadResponse(400, "File must be an audio file", <<>>))
          ELSE uploadPost' = [uploadPost EXCEPT ![s] =
                   [pc |-> "findOne", user |-> user, projectId |-> p,
                    fileHash |-> file.fileHash, response |-> <<>>]]
    /\ UNCHANGED <<audioAnalysis, reqVars, scoreVars, adminVars, postResponse, page>>

\* uploadsCollection.findOne({ userId, fileHash })
UploadFindOne(s) ==
    /\ uploadPost[s].pc = "findOne"
    /\ LET existingUpload ==
               \E i \in 1..Len(uploadsCollection) :
                   /\ uploadsCollection[i].userId = uploadPost[s].user
                   /\ uploadsCollection[i].fileHash = uploadPost[s].fileHash
       IN  IF existingUpload
           THEN UploadRespond(s, UploadResponse(409,
                    "This file has already been uploaded", <<>>))
           ELSE uploadPost' = [uploadPost EXCEPT ![s].pc = "insertOne"]
    /\ UNCHANGED <<audioAnalysis, reqVars, scoreVars, adminVars, postResponse, page>>

\* uploadsCollection.insertOne(upload), or the database throws
UploadInsertOne(s) ==
    /\ uploadPost[s].pc = "insertOne"
    /\ \E dbUp \in BOOLEAN :
          IF dbUp
          THEN LET doc == [id |-> NewUploadId(uploadsCollection),
                           userId |-> uploadPost[s].user,
                           projectId |-> uploadPost[s].projectId,
                           fileName |-> "talk.mp3",
                           fileHash |-> uploadPost[s].fileHash]
               IN  /\ uploadsCollection' = Append(uploadsCollection, doc)
                   /\ UploadRespond(s, UploadResponse(200, "", <<doc>>))
          ELSE /\ UploadRespond(s, UploadResponse(500, "Internal server error", <<>>))
               /\ UNCHANGED uploadsCollection
    /\ UNCHANGED <<audioAnalysis, reqVars, scoreVars, projectsCollection, deleteReq,
                   patchResponse, postResponse, page>>

UploadNext ==
    \E s \in UploadSlots : UploadStart(s) \/ UploadFindOne(s) \/ UploadInsertOne(s)

SpecUpload == Init /\ [][UploadNext]_vars

----------------------------------------------------------------------------
(* The analysis page *)

\* fetches the page may issue in one visit
MaxFetches == 4

\* fetchAnalysis up to its await: loading on, message cleared, the request sent
fetchAnalysis(p, retry) ==
    [p EXCEPT !.isLoading = TRUE,
              !.errorMessage = "",
              !.fetches = @ \cup {[n |-> p.issued + 1, retry |-> retry, answer |-> <<>>]},
              !.issued = @ + 1]

\* authClient.useSession resolves with a session
PageSession ==
    /\ page.isPending
    /\ page' = [page EXCEPT !.isPending = FALSE, !.effectDue = TRUE]
    /\ UNCHANGED <<audioAnalysis, reqVars, scoreVars, adminVars, postResponse, uploadPost>>

\* the effect runs after a commit that changed one of its dependencies
PageEffect ==
    /\ page.effectDue
    /\ page' = IF ~page.hasFetched /\ ~page.isPending
                 THEN fetchAnalysis([page EXCEPT !.effectDue = FALSE], FALSE)
                 ELSE [page EXCEPT !.effectDue = FALSE]
    /\ UNCHANGED <<audioAnalysis, reqVars, scoreVars, adminVars, postResponse, uploadPost>>

\* the Retry Analysis button of the error alert
PageAlertRetry ==
    /\ page.errorMessage # "" /\ ~page.isLoading /\ ~page.effectDue
    /\ page.issued + 2 <= MaxFetches
    /\ page' = fetchAnalysis([page EXCEPT !.hasFetched = FALSE,
                                          !.effectDue = page.hasFetched], TRUE)
    /\ UNCHANGED <<audioAnalysis, reqVars, scoreVars, adminVars, postResponse, uploadPost>>

\* the Retry Analysis button of the header, shown with an analysis
PageHeaderRetry ==
    /\ page.analysis # <<>> /\ ~page.isLoading /\ ~page.effectDue
    /\ page.issued + 1 <= MaxFetches
    /\ page' = fetchAnalysis(page, TRUE)
    /\ UNCHANGED <<audioAnalysis, reqVars, scoreVars, adminVars, postResponse, uploadPost>>

\* the route answers a fetch: the stored analysis unless bypassed, else a fresh
\* one that it stores, or an error
PageServe ==
    /\ ~page.effectDue
    /\ \E f \in page.fetches, ok \in BOOLEAN :
          /\ f.answer = <<>>
          /\ LET hit == CacheHit(IF page.stored > 0 THEN <<page.stored>> ELSE <<>>, f.retry)
                 version == IF hit THEN page.stored ELSE page.stored + 1
             IN page' = [page EXCEPT
                    !.fetches = (@ \ {f}) \cup
                        {[f EXCEPT !.answer = <<[ok |-> ok,
                                                 analysis |-> IF ok THEN version ELSE 0]>>]},
                    !.stored = IF ok THEN version ELSE @]
    /\ UNCHANGED <<audioAnalysis, reqVars, scoreVars, adminVars, postResponse, uploadPost>>

\* the two-minute timer aborts a fetch that has no answer yet
PageAbort ==
    /\ ~page.effectDue
    /\ \E f \in page.fetches :
          /\ f.answer = <<>>
          /\ page' = [page EXCEPT !.fetches = @ \ {f},
                                  !.errorMessage = "Analysis timed out. Please try again.",
                                  !.isLoading = FALSE]
    /\ UNCHANGED <<audioAnalysis, reqVars, scoreVars, adminVars, postResponse, uploadPost>>

\* fetchAnalysis after its await: the answer is shown, loading ends
PageReceive ==
    /\ ~page.effectDue
    /\ \E f \in page.fetches :
          /\ f.answer # <<>>
          /\ page' = IF f.answer[1].ok
                       THEN [page EXCEPT !.fetches = @ \ {f},
                                         !.analysis = <<f.answer[1].analysis>>,
                                         !.errorMessage = "",
                                         !.hasFetched = TRUE,
                                         !.effectDue = ~page.hasFetched,
                                         !.isLoading = FALSE]
                       ELSE [page EXCEPT !.fetches = @ \ {f},
                                         !.errorMessage = "Failed to analyze audio",
                                         !.isLoading = FALSE]
    /\ UNCHANGED <<audioAnalysis, reqVars, scoreVars, adminVars, postResponse, uploadPost>>

PageNext ==
    \/ PageSession
    \/ PageEffect
    \/ PageAlertRetry
    \/ PageHeaderRetry
    \/ PageServe
    \/ PageAbort
    \/ PageReceive

SpecPage == Init /\ [][PageNext]_vars

----------------------------------------------------------------------------
(* Scoring harness *)

ScoreInit ==
    /\ sAnalysis \in ScoreAnalyses
    /\ sProject \in [timeframe : Timeframes]
    /\ sServer = <<>>
    /\ sClient = <<>>
    /\ audioAnalysis = <<>>
    /\ ReqInit
    /\ AdminIdle
    /\ MoreIdle

\* the server scores the analysis
ScoreServer ==
    /\ sServer = <<>>
    /\ sServer' = << buildPerformanceMetrics(sAnalysis, sProject) >>
    /\ UNCHANGED <<sAnalysis, sProject, sClient, reqVars, audioAnalysis, adminVars, moreVars>>

\* the analysis page scores the analysis
ScoreClient ==
    /\ sClient = <<>>
    /\ sClient' = << [factorScores |-> clientCalculateFactorScores(sAnalysis, sProject),
                      grade |-> clientCalculateGrade(sAnalysis, sProject)] >>
    /\ UNCHANGED <<sAnalysis, sProject, sServer, reqVars, audioAnalysis, adminVars, moreVars>>

ScoreNext == ScoreServer \/ ScoreClient

SpecScore == ScoreInit /\ [][ScoreNext]_vars

----------------------------------------------------------------------------
(* Properties of the scoring functions (SpecScore) *)

Scores(m) == {m.factorScores.time, m.factorScores.coherence,
              m.factorScores.filler, m.factorScores.pauses, m.overallGrade}

\* C10: for every schema-valid analysis and every project timeframe >= 0,
\* each of the four factor scores and overallGrade built by
\* buildPerformanceMetrics is an integer in [0,100].
C10_ScoresInRange ==
    sServer # <<>> => Scores(sServer[1]) \subseteq 0 .. 100

\* a case where the raw time score is below 0 and the raw filler score above 100
C10_Witness ==
    /\ sServer # <<>>
    /\ sProject.timeframe = 3000 /\ sAnalysis.durationSeconds = 65
    /\ sAnalysis.totalFillerWords < 0 /\ sAnalysis.wordCount > 0
    /\ sServer[1].factorScores.time = 0
    /\ sServer[1].factorScores.filler = 100

\* C16: with project.timeframe = 0 the time factor score is 100 for every
\* durationSeconds, and timeGoalSeconds and timeDeltaSeconds are null.
C16_NoTargetFullCredit ==
    (sServer # <<>> /\ sProject.timeframe = 0)
    => /\ sServer[1].factorScores.time = 100
       /\ sServer[1].details.timeGoalSeconds = <<>>
       /\ sServer[1].details.timeDeltaSeconds = <<>>

\* 65 seconds scored without a target
C16_Witness ==
    /\ sServer # <<>>
    /\ sProject.timeframe = 0 /\ sAnalysis.durationSeconds = 65
    /\ sServer[1].factorScores.time = 100
    /\ sServer[1].details.timeGoalSeconds = <<>>

\* round(clamp(100 - 5 * (f / w * 100), 0, 100)) for w > 0, in integers
C17_Expected(f, w) ==
    LET raw == 100 * w - 500 * f       \* w times the unclamped score
    IN  IF raw <= 0 THEN 0
        ELSE IF raw >= 100 * w THEN 100
        ELSE (2 * raw + w) \div (2 * w)

\* C17: for wordCount > 0 the filler factor score is
\* clamp(100 - 5 * (totalFillerWords / wordCount * 100), 0, 100) rounded, so
\* it is 0 whenever totalFillerWords / wordCount >= 0.20.
C17_FillerScore ==
    (sServer # <<>> /\ sAnalysis.wordCount > 0)
    => /\ sServer[1].factorScores.filler
            = C17_Expected(sAnalysis.totalFillerWords, sAnalysis.wordCount)
       /\ (5 * sAnalysis.totalFillerWords >= sAnalysis.wordCount
             => sServer[1].factorScores.filler = 0)

\* 3 fillers in 40 words: 7.5 %, score 62.5, rounded to 63
C17_Witness ==
    /\ sServer # <<>>
    /\ sAnalysis.totalFillerWords = 3 /\ sAnalysis.wordCount = 40
    /\ sServer[1].factorScores.filler = 63

\* C23: overallGrade is the sum of the four rounded factor scores of the same
\* performance divided by 4 and rounded to the nearest integer, ties up.
C23_GradeIsRoundedMean ==
    sServer # <<>> =>
        LET fs == sServer[1].factorScores
            total == fs.time + fs.coherence + fs.filler + fs.pauses
            g == sServer[1].overallGrade
        IN  4 * g - 2 <= total /\ total < 4 * g + 2

\* a tie: 0 + 80 + 100 + 70 = 250, mean 62.5, grade 63
C23_Witness ==
    /\ sServer # <<>>
    /\ LET fs == sServer[1].factorScores
       IN  fs.time + fs.coherence + fs.filler + fs.pauses = 250
    /\ sServer[1].overallGrade = 63

\* round(clamp(100 - |d - tf/1000| / max(0.2 * tf/1000, 1) * 100, 0, 100)) for
\* tf > 0 milliseconds and d seconds, in integers
C24_Expected(d, tf) ==
    LET diff == Abs(1000 * d - tf)            \* milliseconds
        tolerance == Max(tf, 5000)            \* 5000 times the tolerance in seconds
        raw == 100 * tolerance - 500 * diff   \* tolerance times the unclamped score
    IN  IF raw <= 0 THEN 0
        ELSE (2 * raw + tolerance) \div (2 * tolerance)

\* C24: with project.timeframe > 0 the time factor score is
\* round(clamp(100 - (|durationSeconds - timeframe/1000| / max(0.2 * timeframe/1000, 1)) * 100, 0, 100)):
\* 100 when the duration equals the target, 0 when the difference is at least
\* the tolerance, and the tolerance is never below 1 second.
C24_TimeScore ==
    (sServer # <<>> /\ sProject.timeframe > 0)
    => LET d == sAnalysis.durationSeconds
           tf == sProject.timeframe
           time == sServer[1].factorScores.time
       IN  /\ time = C24_Expected(d, tf)
           /\ (1000 * d = tf => time = 100)
           /\ (5000 * Abs(1000 * d - tf) >= 1000 * Max(tf, 5000) => time = 0)
           /\ (tf < 5000 /\ 2 * Abs(1000 * d - tf) = 1000 => time = 50)

\* 65 seconds against a 60000 ms target: 58
C24_Witness ==
    /\ sServer # <<>>
    /\ sProject.timeframe = 60000 /\ sAnalysis.durationSeconds = 65
    /\ sServer[1].factorScores.time = 58

\* 1 second against a 1500 ms target: half of the floored tolerance away, 50
C24_WitnessFloor ==
    /\ sServer # <<>>
    /\ sProject.timeframe = 1500 /\ sAnalysis.durationSeconds = 1
    /\ sServer[1].factorScores.time = 50

\* the number of gaps whose type is long or excessive
C27_LongOrExcessive ==
    Cardinality({i \in 1..Len(sAnalysis.gaps) :
                    sAnalysis.gaps[i].type \in {"long", "excessive"}})

\* C27: the pause factor score is max(0, 100 - 10 * n), n the number of gaps
\* of type long or excessive; short and medium gaps do not count, and 10 or
\* more long or excessive gaps give 0.
C27_PauseScore ==
    sServer # <<>> =>
        /\ sServer[1].factorScores.pauses = Max(0, 100 - 10 * C27_LongOrExcessive)
        /\ sServer[1].details.longPauseCount = C27_LongOrExcessive
        /\ (C27_LongOrExcessive >= 10 => sServer[1].factorScores.pauses = 0)

\* 3 long or excessive gaps among 5 gaps: 70
C27_Witness ==
    /\ sServer # <<>>
    /\ Len(sAnalysis.gaps) = 5 /\ C27_LongOrExcessive = 3
    /\ sServer[1].factorScores.pauses = 70

\* C28: with wordCount = 0 the server's scoring yields a performance value,
\* fillerPercentage is 0 and the filler factor score is 100, whatever
\* totalFillerWords is.
C28_NoWordsNoFiller ==
    [][(sServer = <<>> /\ sAnalysis.wordCount = 0 /\ sServer' # <<>>)
        => /\ sServer'[1].details.fillerPercentage = QInt(0)
           /\ sServer'[1].factorScores.filler = 100
           /\ sServer'[1].overallGrade \in 0 .. 100]_vars

\* no words and 3 filler words: filler score 100
C28_Witness ==
    /\ sServer # <<>>
    /\ sAnalysis.wordCount = 0 /\ sAnalysis.totalFillerWords = 3
    /\ sServer[1].details.fillerPercentage = QInt(0)
    /\ sServer[1].factorScores.filler = 100

\* C9: for the same analysis and project the client's calculateFactorScores
\* and calculateGrade yield exactly the four factor scores and the overall
\* grade of the server's calculateFactorScores and calculateOverallGrade.
C9_ClientEqualsServer ==
    (sServer # <<>> /\ sClient # <<>>) =>
        LET c == sClient[1]
            m == sServer[1]
        IN  /\ \A f \in {"time", "coherence", "filler", "pauses"} :
                  /\ c.factorScores[f].k = "num"
                  /\ c.factorScores[f].v = m.factorScores[f]
            /\ c.grade.k = "num"
            /\ c.grade.v = m.overallGrade

----------------------------------------------------------------------------
(* Properties of GET /api/analyze (Spec) *)

\* the analysis fields of a response's analysis, without performance
FieldsOf(a) ==
    [transcript |-> a.transcript,
     durationSeconds |-> a.durationSeconds,
     wordCount |-> a.wordCount,
     wpm |-> a.wpm,
     fillerWords |-> a.fillerWords,
     totalFillerWords |-> a.totalFillerWords,
     gaps |-> a.gaps,
     averageGapDuration |-> a.averageGapDuration,
     speechSegments |-> a.speechSegments,
     coherenceIssues |-> a.coherenceIssues,
     timestampedTranscript |-> a.timestampedTranscript,
     overallCoherenceScore |-> a.overallCoherenceScore,
     suggestions |-> a.suggestions]

\* the request of slot r reads an upload of its user and project
ReadsOwnUpload(r) ==
    \E i \in 1..Len(uploadsCollection) :
        /\ uploadsCollection[i].id = id[r]
        /\ uploadsCollection[i].userId = sessionUser[r]
        /\ uploadsCollection[i].projectId = projectId[r]

Succeeded(r) == pc[r] = "done" /\ response[r][1].status = 200

\* C1: for an upload that has a stored analysis, a request without
\* retry=true is answered with the stored analysis and never calls the
\* oracle (so of two successive non-retry requests only the first calls it).
C1_CachedWithoutOracle ==
    /\ [](\A r \in Requests : path[r] \in {"hit", "backfill"} => calls[r] = 0)
    /\ [][\A r \in Requests :
            /\ (/\ pc[r] = "upload" /\ pc'[r] # "upload"
                /\ ReadsOwnUpload(r) /\ ~isRetry[r]
                /\ AnalysisOf(audioAnalysis, id[r]) # <<>>)
               => /\ pc'[r] \in {"done", "backfill"}
                  /\ path'[r] \in {"hit", "backfill"}
                  /\ pc'[r] = "done" =>
                        /\ response'[r][1].status = 200
                        /\ FieldsOf(response'[r][1].analysis[1])
                             = cachedAnalysis(AnalysisOf(audioAnalysis, id[r])[1])
            /\ (pc[r] = "backfill" /\ pc'[r] = "done" /\ response'[r][1].status = 200)
               => FieldsOf(response'[r][1].analysis[1])
                    = cachedAnalysis(upload[r].analysis[1])
       ]_vars

\* a first request created the analysis with one oracle call and the second
\* was answered from the store with the same fields
C1_Witness ==
    \E r, q \in Requests :
        /\ r # q
        /\ Succeeded(q) /\ path[q] = "create" /\ calls[q] = 1
        /\ Succeeded(r) /\ path[r] = "hit" /\ calls[r] = 0
        /\ FieldsOf(response[r][1].analysis[1]) = FieldsOf(response[q][1].analysis[1])

\* C2: after a successful retry=true request for an upload with a stored
\* analysis, every field of the stored analysis (timestampedTranscript and
\* performance included) is the one of the new result.
C2_RetryReplacesEveryField ==
    [][\A r \in Requests :
          (/\ pc[r] = "persist" /\ pc'[r] = "done"
           /\ isRetry[r] /\ upload[r].analysis # <<>>
           /\ response'[r][1].status = 200)
          => AnalysisOf(audioAnalysis', id[r])
               = << createData(id[r], analysisData[r][1],
                        buildPerformanceMetrics(analysisData[r][1], project[r][1])) >>
    ]_vars

\* C3: the store holds at most one analysis record per upload.
C3_AtMostOneAnalysis ==
    \A u \in UploadIds : Len(RowsOf(audioAnalysis, u)) <= 1

\* a second create for the upload was attempted and rejected
C3_Witness ==
    \E r \in Requests :
        /\ pc[r] = "done" /\ path[r] = "create" /\ wrote[r] = "failed"
        /\ response[r][1].message = "Unique constraint failed"
        /\ Len(RowsOf(audioAnalysis, "a1")) = 1

\* the request of slot r persists while racing with another request for the
\* same upload, and the database is reachable
RacingPersist(r) ==
    /\ pc[r] = "persist" /\ pc'[r] = "done"
    /\ (raced[r] \/ InFlight(r) # {})
    /\ response'[r][1].message # "Server selection timeout"

C4_WitnessUpdates ==
    \E r, q \in Requests :
        /\ r # q
        /\ Succeeded(q) /\ path[q] = "update"
        /\ Succeeded(r) /\ path[r] = "update"
        /\ analysisData[r] # analysisData[q]
        /\ cachedAnalysis(AnalysisOf(audioAnalysis, "a1")[1])
             = FieldsOf(response[q][1].analysis[1])

\* C5: every stored record is a complete record made from one oracle answer
\* that passed validation and normalisation.
C5_RecordFromOneAnswer ==
    \A i \in 1..Len(audioAnalysis) :
        \E o \in ValidOutputs :
            LET ad == Normalize(o) IN
            /\ SchemaIssues(o) = <<>>
            /\ [audioAnalysis[i] EXCEPT !.performance = <<>>]
                 = [createData(audioAnalysis[i].uploadId, ad,
                               buildPerformanceMetrics(ad, ProjectRows[1]))
                       EXCEPT !.performance = <<>>]

\* C6: on every successful oracle-path analysis the stored and the returned
\* wordCount is the number of tokens counted in the canonical text (the
\* space-joined timestampedTranscript texts when that array is present and
\* non-empty, otherwise transcript), whatever the oracle reported.
C6_CanonicalText(o) ==
    IF o.timestampedTranscript # <<>> /\ o.timestampedTranscript[1] # <<>>
    THEN JoinSpace(TextsOf(o.timestampedTranscript[1]))
    ELSE o.transcript

C6_ServerWordCount ==
    /\ [](\A r \in Requests :
            (Succeeded(r) /\ path[r] \in {"create", "update"})
            => response[r][1].analysis[1].wordCount
                 = countWords(C6_CanonicalText(rawOutput[r][1].value)))
    /\ [][\A r \in Requests :
            (pc[r] = "persist" /\ pc'[r] = "done" /\ response'[r][1].status = 200)
            => AnalysisOf(audioAnalysis', id[r])[1].wordCount
                 = countWords(C6_CanonicalText(rawOutput[r][1].value))
       ]_vars

\* the oracle reported 999 words for "a b." "a!"; 3 are returned and stored
C6_Witness ==
    \E r \in Requests :
        /\ Succeeded(r) /\ path[r] = "update"
        /\ rawOutput[r][1].value = Output1
        /\ rawOutput[r][1].value.wordCount = 999
        /\ response[r][1].analysis[1].wordCount = 3
        /\ AnalysisOf(audioAnalysis, "a1")[1].wordCount = 3

\* w is round(wc / (d / 60)) for d > 0 (nearest integer, ties up) and 0 for d = 0
C25_IsWpm(w, wc, d) ==
    IF d > 0 THEN 2 * d * w - d <= 120 * wc /\ 120 * wc < 2 * d * w + d
    ELSE w = 0

\* C25: on every successful oracle-path analysis the stored and the returned
\* wpm is round(wordCount / (durationSeconds / 60)) of the server-counted
\* wordCount when durationSeconds > 0 and 0 when durationSeconds is 0,
\* whatever wpm the oracle reported.
C25_ServerWpm ==
    /\ [](\A r \in Requests :
            (Succeeded(r) /\ path[r] \in {"create", "update"})
            => LET o == rawOutput[r][1].value
                   a == response[r][1].analysis[1]
               IN  /\ a.wordCount = countWords(C6_CanonicalText(o))
                   /\ C25_IsWpm(a.wpm, a.wordCount, o.durationSeconds))
    /\ [][\A r \in Requests :
            (pc[r] = "persist" /\ pc'[r] = "done" /\ response'[r][1].status = 200)
            => LET o == rawOutput[r][1].value
                   row == AnalysisOf(audioAnalysis', id[r])[1]
               IN  C25_IsWpm(row.wpm, countWords(C6_CanonicalText(o)), o.durationSeconds)
       ]_vars

\* the oracle reported 50 wpm for a recording of 0 seconds; 0 is returned and stored
C25_Witness ==
    \E r \in Requests :
        /\ Succeeded(r) /\ path[r] \in {"create", "update"}
        /\ rawOutput[r][1].value = Output2
        /\ rawOutput[r][1].value.wpm = 50
        /\ response[r][1].analysis[1].wpm = 0
        /\ AnalysisOf(audioAnalysis, "a1")[1].wpm = 0

\* 3 words in 65 seconds, reported as 999 wpm: 3 is returned and stored
C25_WitnessRounded ==
    \E r \in Requests :
        /\ Succeeded(r) /\ path[r] \in {"create", "update"}
        /\ rawOutput[r][1].value = Output1
        /\ response[r][1].analysis[1].wpm = 3
        /\ AnalysisOf(audioAnalysis, "a1")[1].wpm = 3

\* the failing fields of an oracle answer, as a set of paths
C7_FailingFields(o) ==
    {<<"gaps", i, "type">> : i \in {j \in 1..Len(o.gaps) : o.gaps[j].type \notin GapTypes}}
    \cup {<<"speechSegments", i, "type">> :
            i \in {j \in 1..Len(o.speechSegments) :
                      o.speechSegments[j].type \notin SegmentTypes}}
    \cup {<<"speechSegments", i, "coherenceScore">> :
            i \in {j \in 1..Len(o.speechSegments) :
                      \/ o.speechSegments[j].coherenceScore < 0
                      \/ o.speechSegments[j].coherenceScore > 10}}
    \cup {<<"coherenceIssues", i, "severity">> :
            i \in {j \in 1..Len(o.coherenceIssues) :
                      o.coherenceIssues[j].severity \notin Severities}}
    \cup (IF o.overallCoherenceScore < 0 \/ o.overallCoherenceScore > 10
          THEN {<<"overallCoherenceScore">>} ELSE {})

C7_OutOfSet(o) ==
    \/ \E i \in 1..Len(o.gaps) : o.gaps[i].type \notin GapTypes
    \/ \E i \in 1..Len(o.speechSegments) :
          \/ o.speechSegments[i].type \notin SegmentTypes
          \/ o.speechSegments[i].coherenceScore < 0
          \/ o.speechSegments[i].coherenceScore > 10
    \/ \E i \in 1..Len(o.coherenceIssues) : o.coherenceIssues[i].severity \notin Severities
    \/ o.overallCoherenceScore < 0
    \/ o.overallCoherenceScore > 10

\* C7: an oracle answer with an enumerated field outside its set or a
\* coherence score outside [0,10] is answered with the schema-violation
\* response listing the failing fields; nothing is coerced or clamped and no
\* analysis record is created or modified.
C7_SchemaRejection ==
    /\ [](\A r \in Requests :
            (/\ rawOutput[r] # <<>> /\ rawOutput[r][1].type = "json"
             /\ C7_OutOfSet(rawOutput[r][1].value))
            => /\ pc[r] = "done"
               /\ response[r][1].status = 500
               /\ response[r][1].error = "Invalid analysis format from AI"
               /\ {response[r][1].details[i] : i \in 1..Len(response[r][1].details)}
                     = C7_FailingFields(rawOutput[r][1].value)
               /\ response[r][1].analysis = <<>>
               /\ analysisData[r] = <<>>
               /\ wrote[r] = "no")
    /\ [][\A r \in Requests :
            (/\ pc[r] = "oracle" /\ rawOutput'[r] # <<>> /\ rawOutput'[r][1].type = "json"
             /\ C7_OutOfSet(rawOutput'[r][1].value))
            => audioAnalysis' = audioAnalysis
       ]_vars

\* a retry over a stored analysis got gap.type "huge" and overallCoherenceScore
\* 11 from the oracle and was rejected with both fields listed
C7_Witness ==
    \E r \in Requests :
        /\ pc[r] = "done" /\ kind[r] = "SchemaViolation"
        /\ rawOutput[r][1].value.gaps[1].type = "huge"
        /\ rawOutput[r][1].value.overallCoherenceScore = 11
        /\ Len(response[r][1].details) = 2
        /\ audioAnalysis # <<>>

\* the positions of text t that hold '.', '!' or '?' followed by whitespace or
\* by the end of the text
C26_Marks(t) ==
    {i \in 1..Len(t) : t[i] \in {".", "!", "?"} /\ (i = Len(t) \/ t[i + 1] = " ")}

\* text t without its leading and trailing whitespace
C26_Trimmed(t) ==
    LET inked == {i \in 1..Len(t) : t[i] # " "} IN
    IF inked = {} THEN <<>>
    ELSE LET first == CHOOSE i \in inked : \A j \in inked : i <= j
             last == CHOOSE i \in inked : \A j \in inked : j <= i
         IN  SubSeq(t, first, last)

\* the entry's text is non-empty after trimming and has exactly one terminal mark
C26_ExactlyOne(t) ==
    C26_Trimmed(t) # <<>> /\ Cardinality(C26_Marks(C26_Trimmed(t))) = 1

\* C26: an oracle answer with a timestampedTranscript is accepted only if
\* every entry's text is non-empty after trimming and contains exactly one
\* '.', '!' or '?' that is followed by whitespace or the end of the text; an
\* entry with no or with more than one such mark makes the whole answer a
\* schema violation.
C26_OneSentencePerEntry ==
    \A r \in Requests :
        (/\ rawOutput[r] # <<>> /\ rawOutput[r][1].type = "json"
         /\ rawOutput[r][1].value.timestampedTranscript # <<>>)
        => LET tt == rawOutput[r][1].value.timestampedTranscript[1]
               bad == {i \in 1..Len(tt) : ~C26_ExactlyOne(tt[i].text)}
           IN  /\ (analysisData[r] # <<>> \/ Succeeded(r)) => bad = {}
               /\ bad # {} =>
                    /\ pc[r] = "done"
                    /\ kind[r] = "SchemaViolation"
                    /\ response[r][1].status = 500
                    /\ response[r][1].error = "Invalid analysis format from AI"
                    /\ \A i \in bad :
                          \E k \in 1..Len(response[r][1].details) :
                              response[r][1].details[k] = <<"timestampedTranscript", i>>
                    /\ response[r][1].analysis = <<>>
                    /\ wrote[r] = "no"

\* "a. b." in one entry: two terminal marks, rejected as a schema violation
C26_Witness ==
    \E r \in Requests :
        /\ pc[r] = "done" /\ kind[r] = "SchemaViolation"
        /\ rawOutput[r][1].value.timestampedTranscript
              = << << [text |-> <<"a", ".", " ", "b", ".">>] >> >>
        /\ response[r][1].details = << <<"timestampedTranscript", 1>> >>

\* "a b." and " a!" in two entries: accepted
C26_WitnessAccepted ==
    \E r \in Requests :
        /\ Succeeded(r) /\ path[r] \in {"create", "update"}
        /\ rawOutput[r][1].value.timestampedTranscript # <<>>
        /\ Len(rawOutput[r][1].value.timestampedTranscript[1]) = 2

ErrorKinds == {"Unauthorized", "NotFound", "OracleUnavailable", "SchemaViolation",
               "InternalError"}

\* C8: the five error kinds are each reported with a status different from
\* that of the other four.
C8_DistinctStatus ==
    \A r, q \in Requests :
        (/\ pc[r] = "done" /\ pc[q] = "done"
         /\ kind[r] \in ErrorKinds /\ kind[q] \in ErrorKinds
         /\ kind[r] # kind[q])
        => response[r][1].status # response[q][1].status

\* the caller of slot r owns the project the request names
OwnsProject(r) ==
    \E i \in 1..Len(projectsCollection) :
        /\ projectsCollection[i].id = projectId[r]
        /\ projectsCollection[i].userId = sessionUser[r]

\* the step of slot r rejects the request with the given status and kind and
\* leaves the store alone
Rejects(r, status, k) ==
    /\ pc'[r] = "done"
    /\ kind'[r] = k
    /\ response'[r][1].status = status
    /\ response'[r][1].analysis = <<>>
    /\ calls'[r] = 0
    /\ wrote'[r] = "no"
    /\ audioAnalysis' = audioAnalysis

\* C12: a request without an authenticated user ends in Unauthorized (401);
\* one whose project the caller does not own, or whose upload does not belong
\* to that caller and project, ends in NotFound (404); in these cases the
\* oracle is not called and no analysis record is returned, created or changed.
C12_RejectedWithoutEffect ==
    /\ [](\A r \in Requests :
            (pc[r] = "done" /\ kind[r] \in {"Unauthorized", "NotFound"})
            => /\ calls[r] = 0 /\ wrote[r] = "no" /\ rawOutput[r] = <<>>
               /\ response[r][1].analysis = <<>>)
    /\ [][\A r \in Requests :
            /\ (pc[r] = "session" /\ pc'[r] # "session" /\ sessionUser[r] = "")
               => Rejects(r, 401, "Unauthorized")
            /\ (pc[r] = "project" /\ pc'[r] # "project" /\ ~OwnsProject(r))
               => Rejects(r, 404, "NotFound")
            /\ (pc[r] = "upload" /\ pc'[r] # "upload" /\ ~ReadsOwnUpload(r))
               => Rejects(r, 404, "NotFound")
       ]_vars

\* with an analysis stored, one request was refused for its project and
\* another for its upload
C12_Witness ==
    \E r, q \in Requests :
        /\ pc[r] = "done" /\ response[r][1].error = "Project not found"
        /\ pc[q] = "done" /\ response[q][1].error = "Upload not found"
        /\ calls[r] = 0 /\ calls[q] = 0
        /\ AnalysisOf(audioAnalysis, "a1") # <<>>

\* C13: when generateContent throws or answers without text, the request
\* ends in a failure response (500, carrying the error as it was raised)
\* after exactly one call of the oracle, and the store is not changed.
C13_OneAttemptNoWrite ==
    /\ [](\A r \in Requests :
            (rawOutput[r] # <<>> /\ rawOutput[r][1].type \in {"throws", "noText"})
            => /\ pc[r] = "done"
               /\ calls[r] = 1
               /\ wrote[r] = "no"
               /\ response[r][1].status = 500
               /\ ~response[r][1].success
               /\ response[r][1].analysis = <<>>
               /\ IF rawOutput[r][1].type = "noText"
                  THEN response[r][1].error = "No response from AI"
                  ELSE response[r][1].message = "fetch failed")
    /\ [][\A r \in Requests :
            (/\ pc[r] = "oracle" /\ rawOutput'[r] # <<>>
             /\ rawOutput'[r][1].type \in {"throws", "noText"})
            => /\ calls[r] = 0
               /\ audioAnalysis' = audioAnalysis
       ]_vars

\* with an analysis stored, one request's oracle call threw and another's
\* answered without text
C13_Witness ==
    \E r, q \in Requests :
        /\ pc[r] = "done" /\ rawOutput[r] # <<>> /\ rawOutput[r][1].type = "throws"
        /\ pc[q] = "done" /\ rawOutput[q] # <<>> /\ rawOutput[q][1].type = "noText"
        /\ calls[r] = 1 /\ calls[q] = 1
        /\ response[r][1].status = 500 /\ response[q][1].status = 500
        /\ AnalysisOf(audioAnalysis, "a1") # <<>>

\* C14: two requests that fail with different unexpected exceptions receive
\* identical response bodies (the same generic InternalError message).
C14_SameBodyForAnyException ==
    \A r, q \in Requests :
        (/\ pc[r] = "done" /\ kind[r] = "InternalError"
         /\ pc[q] = "done" /\ kind[q] = "InternalError")
        => response[r][1] = response[q][1]

\* C18: in every stored and every returned analysis, totalFillerWords is the
\* number of entries of fillerWords.
C18_FillerCountMatches ==
    /\ \A i \in 1..Len(audioAnalysis) :
          audioAnalysis[i].totalFillerWords = Len(audioAnalysis[i].fillerWords)
    /\ \A r \in Requests :
          Succeeded(r)
          => response[r][1].analysis[1].totalFillerWords
               = Len(response[r][1].analysis[1].fillerWords)

\* C19: a retry=true request for an upload with a stored analysis that
\* fails (the oracle throws, answers without text or with output that fails
\* validation, or the write throws) leaves the stored analysis exactly as it
\* was: only the step of a retry that persists with success changes the
\* store.  A following request without retry is answered with what is stored.
C19_FailedRetryKeepsResult ==
    [][\A r \in Requests :
          /\ (/\ pc'[r] # pc[r] /\ isRetry[r]
              /\ ~(pc[r] = "persist" /\ response'[r][1].status = 200))
             => audioAnalysis' = audioAnalysis
          /\ (/\ pc[r] \in {"oracle", "persist"} /\ pc'[r] = "done"
              /\ isRetry[r] /\ upload[r].analysis # <<>>
              /\ response'[r][1].status # 200)
             => /\ audioAnalysis' = audioAnalysis
                /\ response'[r][1].analysis = <<>>
          /\ (/\ pc[r] = "upload" /\ pc'[r] # "upload"
              /\ ReadsOwnUpload(r) /\ ~isRetry[r]
              /\ AnalysisOf(audioAnalysis, id[r]) # <<>>
              /\ AnalysisOf(audioAnalysis, id[r])[1].performance # <<>>)
             => LET row == AnalysisOf(audioAnalysis, id[r])[1]
                    a == response'[r][1].analysis[1]
                IN  /\ pc'[r] = "done"
                    /\ response'[r][1].status = 200
                    /\ a.performance = row.performance
                    /\ a.transcript = row.transcript
                    /\ a.timestampedTranscript = row.timestampedTranscript
                    /\ a.wordCount = row.wordCount
                    /\ a.overallCoherenceScore = row.overallCoherenceScore
    ]_vars

\* a retry over the stored analysis failed validation, the record is still
\* there and a request without retry was answered with it
C19_Witness ==
    \E r, q \in Requests :
        /\ r # q
        /\ pc[r] = "done" /\ path[r] = "retry" /\ kind[r] = "SchemaViolation"
        /\ Succeeded(q) /\ path[q] = "hit"
        /\ AnalysisOf(audioAnalysis, "a1") # <<>>
        /\ FieldsOf(response[q][1].analysis[1])
             = cachedAnalysis(AnalysisOf(audioAnalysis, "a1")[1])

\* C20: on a cache hit whose record has no performance the request computes
\* performance from the analysis it read and the project, writes it to the
\* record leaving every other field (and every other record) unchanged, and
\* returns it; on a cache hit whose record has performance nothing is written.
C20_LazyBackfill ==
    [][\A r \in Requests :
          /\ (/\ pc[r] = "upload" /\ pc'[r] # "upload"
              /\ ReadsOwnUpload(r) /\ ~isRetry[r]
              /\ AnalysisOf(audioAnalysis, id[r]) # <<>>)
             => /\ audioAnalysis' = audioAnalysis
                /\ wrote'[r] = "no"
                /\ calls'[r] = 0
                /\ IF AnalysisOf(audioAnalysis, id[r])[1].performance = <<>>
                   THEN pc'[r] = "backfill"
                   ELSE pc'[r] = "done"
          /\ (pc[r] = "backfill" /\ pc'[r] = "done" /\ response'[r][1].status = 200)
             => LET read == upload[r].analysis[1]
                    stored == AnalysisOf(audioAnalysis, id[r])[1]
                    performance == buildPerformanceMetrics(cachedAnalysis(read), project[r][1])
                    a == response'[r][1].analysis[1]
                IN  /\ read.performance = <<>>
                    /\ Len(audioAnalysis') = Len(audioAnalysis)
                    /\ \A i \in 1..Len(audioAnalysis) :
                          audioAnalysis'[i] =
                              IF audioAnalysis[i].uploadId = id[r]
                              THEN [audioAnalysis[i] EXCEPT !.performance = <<performance>>]
                              ELSE audioAnalysis[i]
                    /\ AnalysisOf(audioAnalysis', id[r])
                         = << [stored EXCEPT !.performance = <<performance>>] >>
                    /\ a.performance = <<performance>>
                    /\ FieldsOf(a) = cachedAnalysis(read)
                    /\ response'[r][1].cached
                    /\ calls'[r] = 0
    ]_vars

\* a record stored without performance was read, scored and answered; the
\* record now carries the returned performance and its other fields are the
\* returned ones
C20_Witness ==
    \E r \in Requests :
        /\ Succeeded(r) /\ path[r] = "backfill" /\ wrote[r] = "ok"
        /\ AnalysisOf(audioAnalysis, "a1") # <<>>
        /\ AnalysisOf(audioAnalysis, "a1")[1].performance
             = response[r][1].analysis[1].performance
        /\ response[r][1].analysis[1].performance[1].overallGrade = 48
        /\ cachedAnalysis(AnalysisOf(audioAnalysis, "a1")[1])
             = FieldsOf(response[r][1].analysis[1])

----------------------------------------------------------------------------
(* Properties of DELETE /api/uploads (SpecDelete) *)

\* the step on which the DELETE request answers { success: true }
DeleteSucceeds ==
    /\ deleteReq.pc # "done"
    /\ deleteReq'.pc = "done"
    /\ deleteReq'.response[1].status = 200

\* C11: when a DELETE of an upload answers with success, the store holds no
\* analysis record for that upload (and the upload itself is gone).
C11_NoAnalysisAfterDelete ==
    [][DeleteSucceeds
       => /\ RowsOf(audioAnalysis', deleteReq.id) = <<>>
          /\ \A i \in 1..Len(uploadsCollection') : uploadsCollection'[i].id # deleteReq.id
    ]_vars

\* an analysis request was answered from the stored record of the upload, and
\* after the DELETE succeeded that record is gone
C11_Witness ==
    /\ Succeeded("r1") /\ path["r1"] = "hit"
    /\ deleteReq.pc = "done" /\ deleteReq.id = "a1"
    /\ deleteReq.response[1].success
    /\ RowsOf(audioAnalysis, "a1") = <<>>
    /\ uploadsCollection = <<>>

\* C21: under any interleaving of DELETE requests with analysis requests in
\* flight for the same upload, every analysis record in the store refers to
\* an upload that exists.
C21_NoOrphanAnalysis ==
    \A i \in 1..Len(audioAnalysis) :
        \E j \in 1..Len(uploadsCollection) :
            uploadsCollection[j].id = audioAnalysis[i].uploadId

----------------------------------------------------------------------------
(* Properties of the analysis next to PATCH /api/projects (SpecPatch) *)

\* the stored project with the given id
ProjectOf(rows, pid) == SelectSeq(rows, LAMBDA row : row.id = pid)[1]

\* C15: whenever an analysis response carries performance, it is the score
\* of the returned analysis against the owning project's current timeframe,
\* also when PATCH changed the timeframe after the performance was stored.
C15_PerformanceOfCurrentTimeframe ==
    [][\A r \in Requests :
          (/\ pc[r] # "done" /\ pc'[r] = "done"
           /\ response'[r][1].status = 200
           /\ response'[r][1].analysis[1].performance # <<>>)
          => LET a == response'[r][1].analysis[1]
             IN  a.performance[1]
                   = buildPerformanceMetrics(FieldsOf(a),
                                             ProjectOf(projectsCollection', projectId[r]))
    ]_vars

----------------------------------------------------------------------------
(* Analysis page properties, checked under SpecPage *)

\* C22: while a request carrying retry=true is in flight it is the page's only
\* request, no non-retry request runs next to it, and loading has not ended
C22_RetryRunsAlone ==
    \A f \in page.fetches :
        f.retry => /\ page.fetches = {f}
                   /\ page.isLoading

----------------------------------------------------------------------------
(* Properties of POST /api/uploads (SpecUpload) *)

\* C29: no two stored uploads of one user have the same fileHash
C29_UniqueFileHash ==
    \A i, j \in 1..Len(uploadsCollection) :
        (/\ i # j
         /\ uploadsCollection[i].userId = uploadsCollection[j].userId)
        => uploadsCollection[i].fileHash # uploadsCollection[j].fileHash

----------------------------------------------------------------------------
(* Properties of POST /api/projects and PATCH /api/projects/[id] (SpecProjects) *)

\* a timeframe that is negative, not an integer or not finite
C30_BadTimeframe(tf) ==
    \/ tf.k = "notFinite"
    \/ tf.k = "number" /\ (tf.n < 0 \/ tf.d # 1)

C30_Callers == SessionUsers \ {""}

\* C30: every stored project's timeframe is a non-negative integer, 0 when
\* the creating request omitted it or a request gave null; a signed-in
\* caller's POST or PATCH whose timeframe is negative, not an integer or not
\* finite is answered with 400 and leaves the stored projects unchanged.
C30_TimeframeValidated ==
    /\ [](\A i \in 1..Len(projectsCollection) : projectsCollection[i].timeframe \in Nat)
    /\ [][\A u \in C30_Callers, body \in PostBodies :
            PostWith(u, body)
            => /\ C30_BadTimeframe(body.timeframe)
                  => /\ postResponse'[1].status = 400
                     /\ projectsCollection' = projectsCollection
               /\ (body.timeframe.k \in {"undefined", "null"} /\ postResponse'[1].status = 200)
                  => /\ Len(projectsCollection') = Len(projectsCollection) + 1
                     /\ projectsCollection'[Len(projectsCollection')].timeframe = 0
       ]_vars
    /\ [][\A u \in C30_Callers, p \in ProjectIds, body \in PatchBodies :
            PatchWith(u, p, body)
            => /\ C30_BadTimeframe(body.timeframe)
                  => /\ patchResponse'[1].status = 400
                     /\ projectsCollection' = projectsCollection
               /\ (body.timeframe.k = "null" /\ patchResponse'[1].status = 200)
                  => ProjectOf(projectsCollection', p).timeframe = 0
       ]_vars

\* a project created without a timeframe is stored with 0, and a PATCH with a
\* negative or fractional timeframe was answered with 400
C30_Witness ==
    /\ postResponse # <<>> /\ postResponse[1].status = 200
    /\ postResponse[1].project[1].timeframe = 0
    /\ \E i \in 1..Len(projectsCollection) :
          projectsCollection[i] = postResponse[1].project[1]
    /\ patchResponse # <<>> /\ patchResponse[1].status = 400
    /\ patchResponse[1].error = "Timeframe must be a non-negative integer"

====
